---- MODULE Spec2Model ----
(***************************************************************************)
(* Model of the MNQ hybrid trader core: the RiskManager                    *)
(* (engines/risk_manager.py), the position sizing and statistics helpers   *)
(* (utils/helpers.py), the backtest orchestrator (engines/backtester.py),  *)
(* the order methods and the webhook processor of the Tradovate client     *)
(* (engines/tradovate_client.py) and the dashboard session (app.py).       *)
(*                                                                         *)
(* Numbers.  Prices and dollar amounts are Python floats in the source.    *)
(* Here a price or an amount is an integer count of millionths (Unit is    *)
(* one point, or one dollar).  The inputs are taken on the instrument's    *)
(* tick grid (0.25) or the cent grid, the fractions of the configuration   *)
(* are exact rationals num/den, and every product the code forms from      *)
(* them is then a whole number of millionths, so the arithmetic below is   *)
(* the exact value of the source's expressions.  account_size is kept in   *)
(* whole dollars (it only occurs multiplied by a fraction).                *)
(***************************************************************************)
EXTENDS Integers, Sequences, FiniteSets, TLC

VARIABLES
    config,        \* the StrategyConfig the RiskManager is bound to
    rm,            \* the RiskManager's fields
    call,          \* the last operation invoked with its arguments and its return value
    session_mark,  \* history: len(trade_log) when reset_daily last ran (0 at construction)
    loss_hit,      \* history: the daily loss limit was reached since the last reset_daily
    \* run_backtest: its arguments, its locals and its result
    pc,                \* "idle", "start", "loop", "done"
    df_len,            \* len(df)
    walk_forward,
    in_sample_pct,
    test_start,
    i,                 \* the loop index
    row,               \* the bar at the loop index: (high, low, close)
    signal,            \* the proposal the loop evaluated last
    account,
    equity,
    trades,
    current_trade,     \* <<>> for None, else <<the dict>>
    trade_id_counter,
    signals_generated,
    signals_filtered,
    metrics,
    \* the dashboard (app.py)
    session_state,     \* st.session_state: config, risk_manager, paper_mode, market_data
    heap,              \* the StrategyConfig objects by reference
    \* the broker (tradovate_client.py)
    server             \* the responses the server gives to the next HTTP attempts

rmvars == <<config, rm, call, session_mark, loss_hit>>
btvars == <<pc, df_len, walk_forward, in_sample_pct, test_start, i, row, signal, account, equity,
            trades, current_trade, trade_id_counter, signals_generated, signals_filtered,
            metrics>>
dashvars == <<session_state, heap>>
netvars == <<server>>
vars == <<rmvars, btvars, dashvars, netvars>>

-----------------------------------------------------------------------------
(* Units and program constants *)

Unit == 1000000
Cent == 10000
Tick == 250000

MNQ_POINT_VALUE == 2

Pct(n, d) == [num |-> n, den |-> d]

\* x * p for a fraction p = num/den (exact for the inputs of this model)
MulPct(x, p) == (x \div p.den) * p.num

Abs(x) == IF x < 0 THEN -x ELSE x
Max(a, b) == IF a >= b THEN a ELSE b
Min(a, b) == IF a <= b THEN a ELSE b

\* Python's round(x, 2): nearest cent, a tie goes to the even cent
Round2(x) ==
    LET q == x \div Cent
        r == x % Cent
    IN  IF 2 * r < Cent THEN q * Cent
        ELSE IF 2 * r > Cent THEN (q + 1) * Cent
        ELSE IF q % 2 = 0 THEN q * Cent ELSE (q + 1) * Cent

\* round half to even of n / d (d > 0)
RoundDiv(n, d) ==
    LET q == n \div d
        r == n % d
    IN  IF 2 * r < d THEN q
        ELSE IF 2 * r > d THEN q + 1
        ELSE IF q % 2 = 0 THEN q ELSE q + 1

\* Python's int(a / b): the quotient truncated toward zero (b # 0)
TruncDiv(a, b) ==
    LET q == Abs(a) \div Abs(b)
    IN  IF (a < 0) = (b < 0) THEN q ELSE -q

-----------------------------------------------------------------------------
(* RiskManager *)

NoReason == [prefix |-> "", text |-> "", amount |-> 0]

\* RiskManager.__init__
NewRiskManager ==
    [daily_pnl |-> 0,
     trades_today |-> 0,
     is_shutdown |-> FALSE,
     shutdown_reason |-> NoReason,
     open_positions |-> <<>>,
     trade_log |-> <<>>]

\* account_size * max_daily_loss_pct
MaxLoss(cfg) == MulPct(cfg.account_size * Unit, cfg.max_daily_loss_pct)

\* reset_daily dropping the open positions as well
reset_daily_clearing(s) ==
    [s EXCEPT !.daily_pnl = 0,
              !.trades_today = 0,
              !.is_shutdown = FALSE,
              !.shutdown_reason = NoReason,
              !.open_positions = <<>>]

\* RiskManager.reset_daily
reset_daily(s) ==
    [s EXCEPT !.daily_pnl = 0,
              !.trades_today = 0,
              !.is_shutdown = FALSE,
              !.shutdown_reason = NoReason]

\* can_trade letting one trade more than max_trades_per_session through
can_trade_one_more(cfg, s) ==
    IF s.is_shutdown
    THEN [rm |-> s,
          ret |-> [allowed |-> FALSE,
                   reason |-> [s.shutdown_reason EXCEPT !.prefix = "Trading halted: "]]]
    ELSE IF s.daily_pnl <= -MaxLoss(cfg)
    THEN LET why == [prefix |-> "", text |-> "Max daily loss reached",
                     amount |-> Round2(MaxLoss(cfg))]
         IN  [rm |-> [s EXCEPT !.is_shutdown = TRUE, !.shutdown_reason = why],
              ret |-> [allowed |-> FALSE, reason |-> why]]
    ELSE IF s.trades_today > cfg.max_trades_per_session
    THEN [rm |-> s,
          ret |-> [allowed |-> FALSE,
                   reason |-> [prefix |-> "", text |-> "Max trades per session reached",
                               amount |-> cfg.max_trades_per_session]]]
    ELSE IF Cardinality(DOMAIN s.open_positions) > 0
    THEN [rm |-> s,
          ret |-> [allowed |-> FALSE,
                   reason |-> [prefix |-> "", text |-> "Position already open", amount |-> 0]]]
    ELSE [rm |-> s,
          ret |-> [allowed |-> TRUE, reason |-> [prefix |-> "", text |-> "OK", amount |-> 0]]]

\* RiskManager.can_trade: the new fields and the returned (allowed, reason)
can_trade(cfg, s) ==
    IF s.is_shutdown
    THEN [rm |-> s,
          ret |-> [allowed |-> FALSE,
                   reason |-> [s.shutdown_reason EXCEPT !.prefix = "Trading halted: "]]]
    ELSE IF s.daily_pnl <= -MaxLoss(cfg)
    THEN LET why == [prefix |-> "", text |-> "Max daily loss reached",
                     amount |-> Round2(MaxLoss(cfg))]
         IN  [rm |-> [s EXCEPT !.is_shutdown = TRUE, !.shutdown_reason = why],
              ret |-> [allowed |-> FALSE, reason |-> why]]
    ELSE IF s.trades_today >= cfg.max_trades_per_session
    THEN [rm |-> s,
          ret |-> [allowed |-> FALSE,
                   reason |-> [prefix |-> "", text |-> "Max trades per session reached",
                               amount |-> cfg.max_trades_per_session]]]
    ELSE IF Cardinality(DOMAIN s.open_positions) > 0
    THEN [rm |-> s,
          ret |-> [allowed |-> FALSE,
                   reason |-> [prefix |-> "", text |-> "Position already open", amount |-> 0]]]
    ELSE [rm |-> s,
          ret |-> [allowed |-> TRUE, reason |-> [prefix |-> "", text |-> "OK", amount |-> 0]]]

\* the guard of calculate_position_size on the stop distance
InvalidStop_zero_only(stop_distance_points) == stop_distance_points = 0

InvalidStop(stop_distance_points) == stop_distance_points <= 0

\* risk_amount = account_size * risk fraction, in cents, times the fraction's denominator
RiskCentsNum(account_size, risk_pct) == account_size * 100 * risk_pct.num

\* cost_per_contract without the point value
CostCents_points_only(stop_distance_points, point_value) == stop_distance_points \div Cent

\* cost_per_contract = stop_distance_points * point value, in cents (the stop
\* distances of this model are whole half cents)
CostCents(stop_distance_points, point_value) == (stop_distance_points * point_value) \div Cent

\* RiskManager.calculate_position_size; stop_distance_points in millionths of a point.
\* risk_amount / cost_per_contract is the exact quotient risk_num / (den * cost).
calculate_position_size(cfg, stop_distance_points) ==
    IF InvalidStop(stop_distance_points) THEN 0
    ELSE
    LET risk_num == RiskCentsNum(cfg.account_size, cfg.risk_per_trade_pct)
        cost == cfg.risk_per_trade_pct.den * CostCents(stop_distance_points, MNQ_POINT_VALUE)
        floored == TruncDiv(risk_num, cost)
        half == IF cost > 0 THEN 2 * risk_num >= cost ELSE 2 * risk_num <= cost
        contracts == IF floored = 0 /\ half THEN 1 ELSE floored
        \* int(account_size / max(account_size * 0.01, 1))
        max_by_margin == IF cfg.account_size >= 100 THEN 100 ELSE cfg.account_size
    IN  Max(0, Min(contracts, Max(1, max_by_margin)))

\* a sizing that returns at least one contract for a valid stop and account
helpers_calculate_position_size_min_one(account_size, risk_pct, stop_distance_points, point_value) ==
    IF stop_distance_points <= 0 \/ account_size <= 0 THEN 0
    ELSE
    LET risk_num == RiskCentsNum(account_size, risk_pct)
        cost == risk_pct.den * CostCents(stop_distance_points, point_value)
    IN  Max(1, TruncDiv(risk_num, cost))

\* helpers.calculate_position_size
helpers_calculate_position_size(account_size, risk_pct, stop_distance_points, point_value) ==
    IF stop_distance_points <= 0 \/ account_size <= 0 THEN 0
    ELSE
    LET risk_num == RiskCentsNum(account_size, risk_pct)
        cost == risk_pct.den * CostCents(stop_distance_points, point_value)
    IN  Max(0, TruncDiv(risk_num, cost))

\* the dict process_entry stores (entry_time, a wall-clock stamp nothing reads, is left out)
NewPosition(direction, entry_price, stop_loss, take_profit, quantity) ==
    [direction |-> direction,
     entry_price |-> entry_price,
     stop_loss |-> stop_loss,
     take_profit |-> take_profit,
     quantity |-> quantity,
     highest_price |-> entry_price,
     lowest_price |-> entry_price]

\* open_positions[trade_id] = pos
PutPosition(positions, trade_id, pos) ==
    [k \in (DOMAIN positions) \cup {trade_id} |-> IF k = trade_id THEN pos ELSE positions[k]]

\* the position is left in open_positions
DelPosition_keep(positions, trade_id) == positions

\* del open_positions[trade_id]
DelPosition(positions, trade_id) ==
    [k \in (DOMAIN positions) \ {trade_id} |-> positions[k]]

\* process_entry that does not count the trade
process_entry_uncounted(s, trade_id, direction, entry_price, stop_loss, take_profit, quantity) ==
    [s EXCEPT !.open_positions =
                  PutPosition(s.open_positions, trade_id,
                              NewPosition(direction, entry_price, stop_loss, take_profit, quantity))]

\* RiskManager.process_entry
process_entry(s, trade_id, direction, entry_price, stop_loss, take_profit, quantity) ==
    [s EXCEPT !.open_positions =
                  PutPosition(s.open_positions, trade_id,
                              NewPosition(direction, entry_price, stop_loss, take_profit, quantity)),
              !.trades_today = s.trades_today + 1]

\* the dict process_exit returns for an id that is not open
ZeroExit == [pnl |-> 0, commission |-> 0, slippage |-> 0, net_pnl |-> 0]

\* process_exit logging the zeroed dict of an id that is not open
UnknownExit_logged(s) ==
    [rm |-> [s EXCEPT !.trade_log = Append(s.trade_log, ZeroExit)], ret |-> ZeroExit]

\* process_exit for an id that is not open: nothing is assigned
UnknownExit(s) == [rm |-> s, ret |-> ZeroExit]

\* process_exit's check of the daily loss limit after the trade: the new
\* (is_shutdown, shutdown_reason)
ShutdownAfterExit_never(cfg, s, new_daily) ==
    <<s.is_shutdown, s.shutdown_reason>>

\* the flag is set but the reason is left as it was
ShutdownAfterExit_no_reason(cfg, s, new_daily) ==
    IF new_daily <= -MaxLoss(cfg)
    THEN <<TRUE, s.shutdown_reason>>
    ELSE <<s.is_shutdown, s.shutdown_reason>>

ShutdownAfterExit(cfg, s, new_daily) ==
    IF new_daily <= -MaxLoss(cfg)
    THEN <<TRUE, [prefix |-> "", text |-> "Max daily loss reached after trade",
                  amount |-> Round2(Abs(new_daily))]>>
    ELSE <<s.is_shutdown, s.shutdown_reason>>

\* the fill moved in the position's favour
AdverseFill_favourable(direction, exit_price, slippage_amount) ==
    IF direction = "LONG" THEN exit_price + slippage_amount ELSE exit_price - slippage_amount

\* process_exit's adj_exit: the exit price moved against the position
AdverseFill(direction, exit_price, slippage_amount) ==
    IF direction = "LONG" THEN exit_price - slippage_amount ELSE exit_price + slippage_amount

\* RiskManager.process_exit: the new fields and the returned dict
process_exit(cfg, s, trade_id, exit_price, reason) ==
    IF trade_id \notin DOMAIN s.open_positions
    THEN UnknownExit(s)
    ELSE
    LET pos == s.open_positions[trade_id]
        direction == pos.direction
        entry == pos.entry_price
        qty == pos.quantity
        slippage_amount == MulPct(exit_price, cfg.slippage_pct)
        adj_exit == AdverseFill(direction, exit_price, slippage_amount)
        pnl_points == IF direction = "LONG" THEN adj_exit - entry ELSE entry - adj_exit
        gross_pnl == pnl_points * MNQ_POINT_VALUE * qty
        commission == cfg.commission_per_contract * qty * 2
        slippage_cost == slippage_amount * MNQ_POINT_VALUE * qty
        net_pnl == gross_pnl - commission
        new_daily == s.daily_pnl + net_pnl
        latch == ShutdownAfterExit(cfg, s, new_daily)
        result == [trade_id |-> trade_id,
                   direction |-> direction,
                   entry_price |-> entry,
                   exit_price |-> exit_price,
                   adj_exit_price |-> adj_exit,
                   pnl_points |-> Round2(pnl_points),
                   gross_pnl |-> Round2(gross_pnl),
                   commission |-> Round2(commission),
                   slippage_cost |-> Round2(slippage_cost),
                   net_pnl |-> Round2(net_pnl),
                   quantity |-> qty,
                   exit_reason |-> reason]
    IN  [rm |-> [s EXCEPT !.daily_pnl = new_daily,
                          !.is_shutdown = latch[1],
                          !.shutdown_reason = latch[2],
                          !.trade_log = Append(s.trade_log, result),
                          !.open_positions = DelPosition(s.open_positions, trade_id)],
         ret |-> result]

None == [some |-> FALSE, value |-> 0]
Some(v) == [some |-> TRUE, value |-> v]

\* RiskManager.update_trailing_stop: the new fields and the returned Optional[float]
update_trailing_stop(cfg, s, trade_id, current_price) ==
    IF trade_id \notin DOMAIN s.open_positions
    THEN [rm |-> s, ret |-> None]
    ELSE
    LET pos == s.open_positions[trade_id]
        entry == pos.entry_price
        current_stop == pos.stop_loss
    IN
    IF pos.direction = "LONG"
    THEN LET highest == Max(pos.highest_price, current_price)
             tracked == [s EXCEPT !.open_positions[trade_id].highest_price = highest]
             profit == current_price - entry
             trail_amount == MulPct(profit, cfg.trailing_stop_pct)
             new_stop == highest - trail_amount
         IN  IF profit <= 0 THEN [rm |-> tracked, ret |-> None]
             ELSE IF new_stop > current_stop
             THEN [rm |-> [tracked EXCEPT !.open_positions[trade_id].stop_loss = Round2(new_stop)],
                   ret |-> Some(Round2(new_stop))]
             ELSE [rm |-> tracked, ret |-> None]
    ELSE LET lowest == Min(pos.lowest_price, current_price)
             tracked == [s EXCEPT !.open_positions[trade_id].lowest_price = lowest]
             profit == entry - current_price
             trail_amount == MulPct(profit, cfg.trailing_stop_pct)
             new_stop == lowest + trail_amount
         IN  IF profit <= 0 THEN [rm |-> tracked, ret |-> None]
             ELSE IF new_stop < current_stop
             THEN [rm |-> [tracked EXCEPT !.open_positions[trade_id].stop_loss = Round2(new_stop)],
                   ret |-> Some(Round2(new_stop))]
             ELSE [rm |-> tracked, ret |-> None]

NoExit == [some |-> FALSE, price |-> 0, reason |-> ""]
ExitAt(p, why) == [some |-> TRUE, price |-> p, reason |-> why]

\* check_exit_conditions' decision for an open position: stop first, then target
ExitDecision_target_first(pos, current_high, current_low) ==
    IF pos.direction = "LONG"
    THEN IF current_high >= pos.take_profit THEN ExitAt(pos.take_profit, "Take Profit")
         ELSE IF current_low <= pos.stop_loss THEN ExitAt(pos.stop_loss, "Stop Loss")
         ELSE NoExit
    ELSE IF current_low <= pos.take_profit THEN ExitAt(pos.take_profit, "Take Profit")
         ELSE IF current_high >= pos.stop_loss THEN ExitAt(pos.stop_loss, "Stop Loss")
         ELSE NoExit

ExitDecision(pos, current_high, current_low) ==
    LET stop == pos.stop_loss
        target == pos.take_profit
    IN  IF pos.direction = "LONG"
        THEN IF current_low <= stop THEN ExitAt(stop, "Stop Loss")
             ELSE IF current_high >= target THEN ExitAt(target, "Take Profit")
             ELSE NoExit
        ELSE IF current_high >= stop THEN ExitAt(stop, "Stop Loss")
             ELSE IF current_low <= target THEN ExitAt(target, "Take Profit")
             ELSE NoExit

\* the trailing stop is advanced on the bar's close whether or not an exit is reported
check_exit_conditions_trailing_always(cfg, s, trade_id, current_high, current_low, current_close) ==
    IF trade_id \notin DOMAIN s.open_positions
    THEN [rm |-> s, ret |-> NoExit]
    ELSE [rm |-> update_trailing_stop(cfg, s, trade_id, current_close).rm,
          ret |-> ExitDecision(s.open_positions[trade_id], current_high, current_low)]

\* RiskManager.check_exit_conditions: the new fields and the returned Optional[(price, reason)]
check_exit_conditions(cfg, s, trade_id, current_high, current_low, current_close) ==
    IF trade_id \notin DOMAIN s.open_positions
    THEN [rm |-> s, ret |-> NoExit]
    ELSE
    LET hit == ExitDecision(s.open_positions[trade_id], current_high, current_low)
    IN  IF hit.some THEN [rm |-> s, ret |-> hit]
        ELSE [rm |-> update_trailing_stop(cfg, s, trade_id, current_close).rm, ret |-> NoExit]

\* RiskManager.get_status: the returned dict (the fields are only read)
get_status(cfg, s) ==
    LET max_loss == MaxLoss(cfg)
        remaining_loss_budget == max_loss + s.daily_pnl
    IN  [daily_pnl |-> Round2(s.daily_pnl),
         trades_today |-> s.trades_today,
         max_trades |-> cfg.max_trades_per_session,
         trades_remaining |-> Max(0, cfg.max_trades_per_session - s.trades_today),
         is_shutdown |-> s.is_shutdown,
         shutdown_reason |-> s.shutdown_reason,
         max_daily_loss |-> Round2(max_loss),
         remaining_loss_budget |-> Round2(Max(0, remaining_loss_budget)),
         open_positions |-> Cardinality(DOMAIN s.open_positions),
         \* round(remaining / max_loss * 100, 1), in tenths of a percent
         \* (max_loss is a whole number of cents)
         loss_budget_pct |-> IF max_loss > 0
                             THEN RoundDiv(remaining_loss_budget, max_loss \div 1000) ELSE 0]

\* get_status latching the shutdown the way can_trade does
get_status_fields_latching(cfg, s) ==
    IF ~s.is_shutdown /\ s.daily_pnl <= -MaxLoss(cfg)
    THEN [s EXCEPT !.is_shutdown = TRUE,
                   !.shutdown_reason = [prefix |-> "", text |-> "Max daily loss reached",
                                        amount |-> Round2(MaxLoss(cfg))]]
    ELSE s

\* RiskManager.get_status: the manager's fields after the call (none is assigned)
get_status_fields(cfg, s) == s

-----------------------------------------------------------------------------
(* The RiskManager driven through its public operations in any order *)

MaxEntries == 2     \* process_entry calls in one session and positions in one behaviour

BasePrice == 100 * Unit

TradeIds == {1, 2}
Directions == {"LONG", "SHORT"}
Quantities == {2}
\* 99.25, 100.25, 101.00
Prices == {BasePrice - 3 * Tick, BasePrice + Tick, BasePrice + 4 * Tick}
EntryPrices == {BasePrice}
\* (stop_loss, take_profit) of an entry at BasePrice: 99.25 and 101.00, on the
\* losing and the winning side of the direction
Bracket(d) == IF d = "LONG" THEN <<BasePrice - 3 * Tick, BasePrice + 4 * Tick>>
              ELSE <<BasePrice + 4 * Tick, BasePrice - 3 * Tick>>
\* bars (high, low, close): a tick up, up, down, wide
Bars == {<<BasePrice + Tick, BasePrice + Tick, BasePrice + Tick>>,
         <<BasePrice + 4 * Tick, BasePrice + Tick, BasePrice + 4 * Tick>>,
         <<BasePrice + Tick, BasePrice - 3 * Tick, BasePrice - 3 * Tick>>,
         <<BasePrice + 4 * Tick, BasePrice - 3 * Tick, BasePrice + Tick>>}

\* StrategyConfig: the fields the core reads
Config(size, risk, loss, max_trades, trail, slip, commission, trend, mode) ==
    [account_size |-> size,
     risk_per_trade_pct |-> risk,
     max_daily_loss_pct |-> loss,
     max_trades_per_session |-> max_trades,
     trailing_stop_pct |-> trail,
     slippage_pct |-> slip,
     commission_per_contract |-> commission,
     trend_ema_period |-> trend,
     strategy_mode |-> mode]

\* a $1000 account with a 0.5% ($5) daily loss limit, the default 0.1% slippage,
\* $0.62 commission and 0.5 trailing fraction
RMConfigs ==
    {Config(1000, Pct(1, 400), Pct(1, 200), 2, Pct(1, 2), Pct(1, 1000), 62 * Cent, 50, "hybrid1")}

NoCall == [op |-> "__init__", args |-> <<>>, ret |-> <<>>]

LossReached(cfg, s) == s.daily_pnl <= -MaxLoss(cfg)

NoBar == <<0, 0, 0>>

\* The signal generator (strategies/strategy_engine.py) is not part of the
\* sources at hand: what it returns for a bar is any of these proposals.
\* confidence is in tenths.
NoSignal == [signal |-> "NONE", entry_price |-> 0, stop_loss |-> 0, take_profit |-> 0,
             confidence |-> 0, strategy |-> "", reason |-> ""]

Proposal(sig, entry, stop, target, conf, tag) ==
    [signal |-> sig, entry_price |-> entry, stop_loss |-> stop, take_profit |-> target,
     confidence |-> conf, strategy |-> tag, reason |-> "signal"]

\* no dashboard session
DashboardIdle ==
    /\ session_state = <<>>
    /\ heap = <<>>

\* no HTTP exchange under way
ClientIdle == server = <<>>

\* no backtest is running
BacktestIdle ==
    /\ pc = "idle"
    /\ df_len = 0
    /\ walk_forward = FALSE
    /\ in_sample_pct = Pct(0, 1)
    /\ test_start = 0
    /\ i = 0
    /\ row = NoBar
    /\ signal = NoSignal
    /\ account = 0
    /\ equity = <<>>
    /\ trades = <<>>
    /\ current_trade = <<>>
    /\ trade_id_counter = 0
    /\ signals_generated = 0
    /\ signals_filtered = 0
    /\ metrics = <<>>

InitRM ==
    /\ BacktestIdle
    /\ DashboardIdle
    /\ ClientIdle
    /\ config \in RMConfigs
    /\ rm = NewRiskManager
    /\ call = NoCall
    /\ session_mark = 0
    /\ loss_hit = LossReached(config, rm)

\* the history variables after a step that is not reset_daily
Track ==
    /\ session_mark' = session_mark
    /\ loss_hit' = (loss_hit \/ LossReached(config, rm'))

ResetDaily ==
    /\ rm' = reset_daily(rm)
    /\ call' = [op |-> "reset_daily", args |-> <<>>, ret |-> <<>>]
    /\ session_mark' = Len(rm.trade_log)
    /\ loss_hit' = LossReached(config, rm')
    /\ UNCHANGED <<netvars, dashvars, config, btvars>>

CanTrade ==
    /\ rm' = can_trade(config, rm).rm
    /\ call' = [op |-> "can_trade", args |-> <<>>, ret |-> can_trade(config, rm).ret]
    /\ Track
    /\ UNCHANGED <<netvars, dashvars, config, btvars>>

EntriesSoFar == Len(rm.trade_log) + Cardinality(DOMAIN rm.open_positions)

ProcessEntry ==
    /\ EntriesSoFar < MaxEntries
    /\ rm.trades_today < MaxEntries
    /\ \E id \in TradeIds, d \in Directions, e \in EntryPrices, q \in Quantities :
          /\ rm' = process_entry(rm, id, d, e, Bracket(d)[1], Bracket(d)[2], q)
          /\ call' = [op |-> "process_entry", args |-> <<id>>, ret |-> <<>>]
    /\ Track
    /\ UNCHANGED <<netvars, dashvars, config, btvars>>

ProcessExit ==
    /\ \E id \in TradeIds, p \in Prices :
          /\ rm' = process_exit(config, rm, id, p, "Manual").rm
          /\ call' = [op |-> "process_exit", args |-> <<id>>,
                      ret |-> process_exit(config, rm, id, p, "Manual").ret]
    /\ Track
    /\ UNCHANGED <<netvars, dashvars, config, btvars>>

UpdateTrailingStop ==
    /\ \E id \in TradeIds, p \in Prices :
          /\ rm' = update_trailing_stop(config, rm, id, p).rm
          /\ call' = [op |-> "update_trailing_stop", args |-> <<id, p>>,
                      ret |-> update_trailing_stop(config, rm, id, p).ret]
    /\ Track
    /\ UNCHANGED <<netvars, dashvars, config, btvars>>

CheckExitConditions ==
    /\ \E id \in TradeIds, bar \in Bars :
          /\ rm' = check_exit_conditions(config, rm, id, bar[1], bar[2], bar[3]).rm
          /\ call' = [op |-> "check_exit_conditions", args |-> <<id, bar[1], bar[2], bar[3]>>,
                      ret |-> check_exit_conditions(config, rm, id, bar[1], bar[2], bar[3]).ret]
    /\ Track
    /\ UNCHANGED <<netvars, dashvars, config, btvars>>

GetStatus ==
    /\ rm' = get_status_fields(config, rm)
    /\ call' = [op |-> "get_status", args |-> <<>>, ret |-> get_status(config, rm)]
    /\ Track
    /\ UNCHANGED <<netvars, dashvars, config, btvars>>

NextRM ==
    \/ ResetDaily
    \/ CanTrade
    \/ ProcessEntry
    \/ ProcessExit
    \/ UpdateTrailingStop
    \/ CheckExitConditions
    \/ GetStatus

SpecRM == InitRM /\ [][NextRM]_vars

-----------------------------------------------------------------------------
(* can_trade and get_status on a manager whose fields were assigned directly. *)
(* The fields are public attributes: the tests set daily_pnl and trades_today *)
(* before calling can_trade.                                                  *)

MaxTradesToday == 3     \* the largest trades_today assigned

\* the $5 loss limit of RMConfigs, and no loss limit at all
GateConfigs ==
    RMConfigs \cup
    {Config(1000, Pct(1, 400), Pct(0, 1), 2, Pct(1, 2), Pct(1, 1000), 62 * Cent, 50, "hybrid1")}

\* daily_pnl: beyond, at and within the $5 limit, zero, a gain
GatePnls == {-6 * Unit, -5 * Unit, -5 * Unit + Cent, 0, 3 * Unit}

\* open_positions: none, one, two
GatePositions ==
    LET pos == NewPosition("LONG", BasePrice, Bracket("LONG")[1], Bracket("LONG")[2], 2)
    IN  {<<>>, PutPosition(<<>>, 1, pos), PutPosition(PutPosition(<<>>, 1, pos), 2, pos)}

GateManagers ==
    {[daily_pnl |-> d,
      trades_today |-> t,
      is_shutdown |-> b,
      shutdown_reason |-> IF b THEN [prefix |-> "", text |-> "Max daily loss reached",
                                     amount |-> 5 * Unit]
                          ELSE NoReason,
      open_positions |-> o,
      trade_log |-> <<>>] :
        d \in GatePnls, t \in 0..MaxTradesToday, b \in BOOLEAN, o \in GatePositions}

InitGate ==
    /\ BacktestIdle
    /\ DashboardIdle
    /\ ClientIdle
    /\ config \in GateConfigs
    /\ rm \in GateManagers
    /\ call = NoCall
    /\ session_mark = 0
    /\ loss_hit = LossReached(config, rm)

NextGate ==
    \/ CanTrade
    \/ GetStatus

SpecGate == InitGate /\ [][NextGate]_vars

-----------------------------------------------------------------------------
(* Position sizing: the two calculate_position_size functions on their inputs *)

MaxStopTicks == 12  \* the widest stop distance of the tick grid, in ticks

\* stop distances: zero, negative, the tick grid up to 3 points, and 20, 25 and 40 points
StopDistances ==
    {k * Tick : k \in -2..MaxStopTicks} \cup {-25 * Unit, 20 * Unit, 25 * Unit, 40 * Unit}

\* account sizes in dollars: negative, zero, below and above the margin cap's
\* knee, the default account, and a large one
AccountSizes == {-1000, 0, 50, 1000, 25000, 100000}

\* risk fractions: the default 0.25%, 0.5%, 2%, zero and a negative one
RiskFractions == {Pct(1, 400), Pct(1, 200), Pct(1, 50), Pct(0, 1), Pct(-1, 400)}

SizeConfigs ==
    {Config(a, r, Pct(1, 50), 6, Pct(1, 2), Pct(1, 1000), 62 * Cent, 50, "both") :
        a \in AccountSizes, r \in RiskFractions}

InitSize ==
    /\ BacktestIdle
    /\ DashboardIdle
    /\ ClientIdle
    /\ config \in SizeConfigs
    /\ rm = NewRiskManager
    /\ call = NoCall
    /\ session_mark = 0
    /\ loss_hit = FALSE

\* RiskManager(config).calculate_position_size(stop)
CalculatePositionSize ==
    /\ \E stop \in StopDistances :
          call' = [op |-> "calculate_position_size", args |-> <<stop>>,
                   ret |-> calculate_position_size(config, stop)]
    /\ UNCHANGED <<netvars, dashvars, config, rm, session_mark, loss_hit, btvars>>

\* helpers.calculate_position_size(account_size, risk_pct, stop) with the default point value
HelpersCalculatePositionSize ==
    /\ \E a \in AccountSizes, r \in RiskFractions, stop \in StopDistances :
          call' = [op |-> "helpers.calculate_position_size", args |-> <<stop, a, r>>,
                   ret |-> helpers_calculate_position_size(a, r, stop, MNQ_POINT_VALUE)]
    /\ UNCHANGED <<netvars, dashvars, config, rm, session_mark, loss_hit, btvars>>

NextSize ==
    \/ CalculatePositionSize
    \/ HelpersCalculatePositionSize

SpecSize == InitSize /\ [][NextSize]_vars

-----------------------------------------------------------------------------
(* The performance statistics of utils/helpers.py.  A float result is the     *)
(* exact fraction num/den in lowest terms, or the infinite sentinel.          *)

RECURSIVE GCD(_, _)
GCD(a, b) == IF b = 0 THEN a ELSE GCD(b, a % b)

\* the float n / d (d # 0)
Frac(n, d) ==
    LET g == GCD(Abs(n), Abs(d))
        sign == IF d < 0 THEN -1 ELSE 1
    IN  [kind |-> "num", num |-> sign * (n \div g), den |-> sign * (d \div g)]

Zero == Frac(0, 1)

\* float("inf")
Infinity == [kind |-> "inf", num |-> 1, den |-> 0]

\* a / b < c / d for fractions with positive denominators
FracLess(x, y) == x.num * y.den < y.num * x.den

RECURSIVE SumSeq(_)
SumSeq(values) ==
    IF values = <<>> THEN 0 ELSE Head(values) + SumSeq(Tail(values))

\* trades["pnl"]
PnlColumn(ledger) == [k \in 1..Len(ledger) |-> ledger[k].pnl]

IsWin(x) == x > 0
IsLoss(x) == x < 0

\* a win rate that counts a pnl of exactly 0 as a win
calculate_win_rate_with_zero(ledger) ==
    IF Len(ledger) = 0 THEN Zero
    ELSE Frac(Len(SelectSeq(PnlColumn(ledger), LAMBDA x : x >= 0)), Len(ledger))

\* helpers.calculate_win_rate
calculate_win_rate(ledger) ==
    IF Len(ledger) = 0 THEN Zero
    ELSE LET winners == Len(SelectSeq(PnlColumn(ledger), IsWin))
         IN  Frac(winners, Len(ledger))

\* helpers.calculate_avg_rr; a mean of dollar amounts is Frac(sum, count * Unit)
calculate_avg_rr(ledger) ==
    IF Len(ledger) = 0 THEN Zero
    ELSE
    LET winners == SelectSeq(PnlColumn(ledger), IsWin)
        losers == SelectSeq(PnlColumn(ledger), IsLoss)
    IN  IF Len(losers) = 0 \/ SumSeq(losers) = 0
        THEN IF Len(winners) > 0 THEN Frac(SumSeq(winners), Len(winners) * Unit) ELSE Zero
        ELSE \* avg_win / avg_loss = (sum_w / n_w) / (|sum_l| / n_l)
             IF Len(winners) > 0
             THEN Frac(SumSeq(winners) * Len(losers), Abs(SumSeq(losers)) * Len(winners))
             ELSE Zero

\* a profit factor without the branch for gross_loss == 0 and no profit
calculate_profit_factor_inf(ledger) ==
    IF Len(ledger) = 0 THEN Zero
    ELSE
    LET gross_profit == SumSeq(SelectSeq(PnlColumn(ledger), IsWin))
        gross_loss == Abs(SumSeq(SelectSeq(PnlColumn(ledger), IsLoss)))
    IN  IF gross_loss = 0 THEN Infinity ELSE Frac(gross_profit, gross_loss)

\* helpers.calculate_profit_factor
calculate_profit_factor(ledger) ==
    IF Len(ledger) = 0 THEN Zero
    ELSE
    LET gross_profit == SumSeq(SelectSeq(PnlColumn(ledger), IsWin))
        gross_loss == Abs(SumSeq(SelectSeq(PnlColumn(ledger), IsLoss)))
    IN  IF gross_loss = 0
        THEN IF gross_profit > 0 THEN Infinity ELSE Zero
        ELSE Frac(gross_profit, gross_loss)

\* equity_curve.expanding(min_periods=1).max() at index k, from the first sample
RunningPeak_from_start(curve, k) == curve[1]

\* equity_curve.expanding(min_periods=1).max() at index k
RunningPeak(curve, k) ==
    LET seen == {curve[j] : j \in 1..k}
    IN  CHOOSE m \in seen : \A v \in seen : v <= m

\* helpers.calculate_max_drawdown: (amount in dollars, fraction)
calculate_max_drawdown(curve) ==
    IF Len(curve) < 2 THEN <<Zero, Zero>>
    ELSE
    LET drawdown == [k \in 1..Len(curve) |-> curve[k] - RunningPeak(curve, k)]
        max_dd == CHOOSE d \in {drawdown[k] : k \in 1..Len(curve)} :
                      \A k \in 1..Len(curve) : d <= drawdown[k]
        ratios == {Frac(drawdown[k], RunningPeak(curve, k)) : k \in 1..Len(curve)}
        dd_pct == CHOOSE r \in ratios : \A q \in ratios : ~FracLess(q, r)
    IN  <<Frac(Abs(max_dd), Unit), [dd_pct EXCEPT !.num = Abs(dd_pct.num)]>>

-----------------------------------------------------------------------------
(* run_backtest *)

MaxLen == 80        \* the longest bar series

\* Bars per synthetic session (the loop resets at every multiple)
SessionBars == 78

\* entries at 100.00; stops half a point away (2 contracts) or three points away
\* (0 contracts)
SignalsOf(tag) ==
    {NoSignal,
     Proposal("FLAT", BasePrice, BasePrice, BasePrice, 0, tag),
     Proposal("LONG", BasePrice, BasePrice - 2 * Tick, BasePrice + 2 * Tick, 8, tag),
     Proposal("SHORT", BasePrice, BasePrice + 2 * Tick, BasePrice - 2 * Tick, 6, tag),
     Proposal("LONG", BasePrice, BasePrice - 2 * Tick, BasePrice + 2 * Tick, 4, tag),
     Proposal("LONG", BasePrice, BasePrice - 12 * Tick, BasePrice + 12 * Tick, 8, tag)}

\* bars (high, low, close): quiet, up through the target, down through the stop,
\* spanning both
BTBars == {<<BasePrice, BasePrice, BasePrice>>,
           <<BasePrice + 4 * Tick, BasePrice, BasePrice + 4 * Tick>>,
           <<BasePrice, BasePrice - 4 * Tick, BasePrice - 4 * Tick>>,
           <<BasePrice + 2 * Tick, BasePrice - 2 * Tick, BasePrice>>}

\* The runs: a $1000 account with a 0.5% daily loss limit.  Walk-forward over the
\* last tenth of MaxLen bars (the session boundary at bar 78 falls inside), with the
\* default slippage and without, two trades a session; too few bars for the trend
\* period; without walk-forward, one trade a session; and with a slippage of
\* 0.5%, as large as the distance of the nearer targets.
BTRuns ==
    {[cfg |-> Config(1000, Pct(1, 400), Pct(1, 200), 2, Pct(1, 2), Pct(1, 1000), 62 * Cent,
                     60, "both"),
      len |-> MaxLen, wf |-> TRUE],
     [cfg |-> Config(1000, Pct(1, 400), Pct(1, 200), 2, Pct(1, 2), Pct(0, 1), 62 * Cent,
                     60, "hybrid1"),
      len |-> MaxLen, wf |-> TRUE],
     [cfg |-> Config(1000, Pct(1, 400), Pct(1, 200), 2, Pct(1, 2), Pct(1, 1000), 62 * Cent,
                     60, "both"),
      len |-> MaxLen - 10, wf |-> TRUE],
     [cfg |-> Config(1000, Pct(1, 400), Pct(1, 200), 1, Pct(1, 2), Pct(1, 1000), 62 * Cent,
                     50, "hybrid2"),
      len |-> MaxLen - 10, wf |-> FALSE],
     [cfg |-> Config(1000, Pct(1, 400), Pct(1, 200), 2, Pct(1, 2), Pct(1, 200), 62 * Cent,
                     60, "hybrid1"),
      len |-> MaxLen, wf |-> TRUE]}

\* the selection of run_backtest's combiner branch
CombineSignals(sig1, sig2) ==
    IF sig1 # NoSignal /\ (sig2 = NoSignal \/ sig1.confidence >= sig2.confidence)
    THEN sig1 ELSE sig2

\* the signal run_backtest evaluates for the configured strategy_mode
SelectSignal(cfg, sig1, sig2) ==
    IF cfg.strategy_mode = "hybrid1" THEN sig1
    ELSE IF cfg.strategy_mode = "hybrid2" THEN sig2
    ELSE CombineSignals(sig1, sig2)

\* what the strategy dispatch can hand to the entry branch
SelectedSignals(cfg) ==
    {SelectSignal(cfg, sig1, sig2) : sig1 \in SignalsOf("hybrid1"), sig2 \in SignalsOf("hybrid2")}

\* the split taken at the out-of-sample fraction
TestStart_out_of_sample(cfg, len, wf, pct) ==
    IF wf THEN TruncDiv(len * (pct.den - pct.num), pct.den) ELSE cfg.trend_ema_period + 5

\* the evaluation start index
TestStart(cfg, len, wf, pct) ==
    IF wf THEN TruncDiv(len * pct.num, pct.den) ELSE cfg.trend_ema_period + 5

InitBT ==
    /\ DashboardIdle
    /\ ClientIdle
    /\ \E run \in BTRuns :
          /\ config = run.cfg
          /\ df_len = run.len
          /\ walk_forward = run.wf
    /\ rm = NewRiskManager
    /\ call = NoCall
    /\ session_mark = 0
    /\ loss_hit = FALSE
    /\ pc = "start"
    /\ in_sample_pct = Pct(9, 10)
    /\ test_start = 0
    /\ i = 0
    /\ row = NoBar
    /\ signal = NoSignal
    /\ account = 0
    /\ equity = <<>>
    /\ trades = <<>>
    /\ current_trade = <<>>
    /\ trade_id_counter = 0
    /\ signals_generated = 0
    /\ signals_filtered = 0
    /\ metrics = <<>>

\* the data check without the 20 bars of margin
InsufficientData_warmup_only(cfg, len) == len < cfg.trend_ema_period

\* run_backtest's data check
InsufficientData(cfg, len) == len < cfg.trend_ema_period + 20

\* run_backtest up to the loop: the data check and the initialisation
StartBacktest ==
    /\ pc = "start"
    /\ IF InsufficientData(config, df_len)
       THEN /\ metrics' = [error |-> "Insufficient data for backtest"]
            /\ pc' = "done"
            /\ UNCHANGED <<test_start, i, account, equity>>
       ELSE /\ test_start' = TestStart(config, df_len, walk_forward, in_sample_pct)
            /\ i' = test_start'
            /\ account' = config.account_size * Unit
            /\ equity' = <<account'>>
            /\ pc' = "loop"
            /\ UNCHANGED metrics
    /\ rm' = NewRiskManager
    /\ UNCHANGED <<netvars, dashvars, config, call, session_mark, loss_hit, df_len, walk_forward, in_sample_pct,
                   row, signal, trades, current_trade, trade_id_counter, signals_generated,
                   signals_filtered>>

\* the ledger entry booking the gross P&L as the trade's pnl
TradeRecord_gross(trade, exit_price, exit_reason, result_info, exit_bar) ==
    [id |-> trade.id,
     direction |-> trade.direction,
     entry_price |-> trade.entry_price,
     stop_loss |-> trade.stop_loss,
     take_profit |-> trade.take_profit,
     quantity |-> trade.quantity,
     strategy |-> trade.strategy,
     reason |-> trade.reason,
     confidence |-> trade.confidence,
     entry_bar |-> trade.entry_bar,
     exit_price |-> exit_price,
     exit_reason |-> exit_reason,
     pnl |-> result_info.gross_pnl,
     gross_pnl |-> result_info.gross_pnl,
     commission |-> result_info.commission,
     exit_bar |-> exit_bar,
     bars_held |-> exit_bar - trade.entry_bar]

\* the ledger entry of a closed trade
TradeRecord(trade, exit_price, exit_reason, result_info, exit_bar) ==
    [id |-> trade.id,
     direction |-> trade.direction,
     entry_price |-> trade.entry_price,
     stop_loss |-> trade.stop_loss,
     take_profit |-> trade.take_profit,
     quantity |-> trade.quantity,
     strategy |-> trade.strategy,
     reason |-> trade.reason,
     confidence |-> trade.confidence,
     entry_bar |-> trade.entry_bar,
     exit_price |-> exit_price,
     exit_reason |-> exit_reason,
     pnl |-> result_info.net_pnl,
     gross_pnl |-> result_info.gross_pnl,
     commission |-> result_info.commission,
     exit_bar |-> exit_bar,
     bars_held |-> exit_bar - trade.entry_bar]

\* the size check of the entry branch: the proposal is taken
AcceptProposal_any_size(qty, sig) == sig.confidence >= 5

\* the confidence check of the entry branch left out
AcceptProposal_any_confidence(qty, sig) == qty > 0

AcceptProposal(qty, sig) == qty > 0 /\ sig.confidence >= 5

\* an entry gate that does not ask can_trade
EntryGate_unchecked(allowed, bar_index, start) == bar_index > start + 3

\* "if can_trade and i > test_start + 3"
EntryGate(allowed, bar_index, start) == allowed /\ bar_index > start + 3

\* the balance sampled before the bar's exit was booked
EquitySample_before_exit(balance_at_start, balance_at_end) == balance_at_start

\* "equity.append(account)", the last statement of the iteration
EquitySample(balance_at_start, balance_at_end) == balance_at_end

\* one iteration of the loop over the bars
BarStep ==
    /\ pc = "loop"
    /\ i < df_len
    /\ \E bar \in BTBars, sig \in SelectedSignals(config) :
        LET \* session start
            new_session == i % SessionBars = 0
            rm0 == IF new_session THEN reset_daily(rm) ELSE rm
            \* exits
            held == current_trade # <<>>
            chk == IF held
                   THEN check_exit_conditions(config, rm0, current_trade[1].id,
                                              bar[1], bar[2], bar[3])
                   ELSE [rm |-> rm0, ret |-> NoExit]
            exited == held /\ chk.ret.some
            ex == IF exited
                  THEN process_exit(config, chk.rm, current_trade[1].id,
                                    chk.ret.price, chk.ret.reason)
                  ELSE [rm |-> chk.rm, ret |-> ZeroExit]
            account1 == IF exited THEN account + ex.ret.net_pnl ELSE account
            trades1 == IF exited
                       THEN Append(trades, TradeRecord(current_trade[1], chk.ret.price,
                                                       chk.ret.reason, ex.ret, i))
                       ELSE trades
            trade1 == IF exited THEN <<>> ELSE current_trade
            \* entries
            gate == IF trade1 = <<>> THEN can_trade(config, ex.rm)
                    ELSE [rm |-> ex.rm, ret |-> [allowed |-> FALSE, reason |-> NoReason]]
            evaluated == trade1 = <<>> /\ EntryGate(gate.ret.allowed, i, test_start)
            proposed == evaluated /\ sig # NoSignal /\ sig.signal # "FLAT"
            stop_dist == Abs(sig.entry_price - sig.stop_loss)
            qty == calculate_position_size(config, stop_dist)
            accepted == proposed /\ AcceptProposal(qty, sig)
            slippage == MulPct(sig.entry_price, config.slippage_pct)
            adj_entry == IF sig.signal = "LONG" THEN sig.entry_price + slippage
                         ELSE sig.entry_price - slippage
        IN  /\ row' = bar
            /\ signal' = IF evaluated THEN sig ELSE signal
            /\ rm' = IF accepted
                     THEN process_entry(gate.rm, trade_id_counter + 1, sig.signal, adj_entry,
                                        sig.stop_loss, sig.take_profit, qty)
                     ELSE gate.rm
            /\ trade_id_counter' = IF accepted THEN trade_id_counter + 1 ELSE trade_id_counter
            /\ current_trade' =
                 IF accepted
                 THEN <<[id |-> trade_id_counter + 1,
                         direction |-> sig.signal,
                         entry_price |-> Round2(adj_entry),
                         stop_loss |-> sig.stop_loss,
                         take_profit |-> sig.take_profit,
                         quantity |-> qty,
                         strategy |-> sig.strategy,
                         reason |-> sig.reason,
                         confidence |-> sig.confidence,
                         entry_bar |-> i]>>
                 ELSE trade1
            /\ signals_generated' = IF proposed THEN signals_generated + 1 ELSE signals_generated
            /\ signals_filtered' = IF proposed /\ ~accepted THEN signals_filtered + 1
                                   ELSE signals_filtered
            /\ account' = account1
            /\ trades' = trades1
            /\ equity' = Append(equity, EquitySample(account, account1))
            /\ session_mark' = IF new_session THEN Len(rm.trade_log) ELSE session_mark
            /\ loss_hit' = IF new_session /\ ~exited THEN FALSE
                           ELSE (loss_hit /\ ~new_session) \/ LossReached(config, rm')
    /\ i' = i + 1
    /\ UNCHANGED <<netvars, dashvars, config, call, pc, df_len, walk_forward, in_sample_pct, test_start, metrics>>

\* the position left after the loop is not closed
RemainingPosition_ignored(trade) == FALSE

\* run_backtest after the loop: if current_trade is not None
RemainingPosition(trade) == trade # <<>>

\* the float calculate_sharpe_ratio returns (a square root of the returns'
\* variance: its value is not computed here)
SharpeValue == [kind |-> "float", num |-> 0, den |-> 0]

\* the metrics dict with the counts, the ratios and the balance (the dates, the
\* drawdown, the commission and per-trade summaries are not part of this record)
FullMetrics(cfg, ledger, curve, balance, wf) ==
    [total_trades |-> Len(ledger),
     winning_trades |-> Len(SelectSeq(PnlColumn(ledger), IsWin)),
     losing_trades |-> Len(SelectSeq(PnlColumn(ledger), LAMBDA x : x <= 0)),
     win_rate |-> calculate_win_rate(ledger),
     avg_rr |-> calculate_avg_rr(ledger),
     profit_factor |-> calculate_profit_factor(ledger),
     net_pnl |-> Round2(balance - cfg.account_size * Unit),
     \* returns = equity_series.pct_change().dropna()
     sharpe |-> IF Len(curve) - 1 > 10 THEN SharpeValue ELSE Zero,
     final_balance |-> Round2(balance),
     walk_forward |-> wf]

\* metrics computed on the ledger whether or not it holds a trade
ComputeMetrics_always(cfg, ledger, curve, balance, wf) ==
    FullMetrics(cfg, ledger, curve, balance, wf)

\* run_backtest, "Compute Metrics"
ComputeMetrics(cfg, ledger, curve, balance, wf) ==
    IF Len(ledger) > 0
    THEN FullMetrics(cfg, ledger, curve, balance, wf)
    ELSE [total_trades |-> 0,
          note |-> "No trades generated. Try adjusting parameters or using more data.",
          walk_forward |-> wf]

\* run_backtest after the loop: the remaining position is closed, the result assembled
FinishBacktest ==
    /\ pc = "loop"
    /\ i >= df_len
    /\ LET held == RemainingPosition(current_trade)
           last_price == row[3]
           ex == IF held
                 THEN process_exit(config, rm, current_trade[1].id, last_price, "Session End")
                 ELSE [rm |-> rm, ret |-> ZeroExit]
           account1 == IF held THEN account + ex.ret.net_pnl ELSE account
           trades1 == IF held
                      THEN Append(trades, TradeRecord(current_trade[1], last_price, "Session End",
                                                      ex.ret, df_len - 1))
                      ELSE trades
       IN  /\ rm' = ex.rm
           /\ account' = account1
           /\ trades' = trades1
           /\ equity' = IF held THEN Append(equity, account1) ELSE equity
           /\ metrics' = ComputeMetrics(config, trades1,
                                        IF held THEN Append(equity, account1) ELSE equity,
                                        account1, walk_forward)
           /\ loss_hit' = (loss_hit \/ LossReached(config, rm'))
    /\ pc' = "done"
    /\ UNCHANGED <<netvars, dashvars, config, call, session_mark, df_len, walk_forward, in_sample_pct, test_start,
                   i, row, signal, current_trade, trade_id_counter, signals_generated,
                   signals_filtered>>

NextBT ==
    \/ StartBacktest
    \/ BarStep
    \/ FinishBacktest

SpecBT == InitBT /\ [][NextBT]_vars

-----------------------------------------------------------------------------
(* The strategy dispatch of run_backtest on the results of the two strategies *)

\* What a strategy returns for a bar.  The generators are not part of the
\* sources at hand; by the specification a proposal has a direction in
\* {LONG, SHORT, FLAT} and a confidence in [0, 1], and a strategy returns a
\* proposal or None.  confidence is in tenths.
StrategyResults(tag) ==
    {NoSignal}
    \cup {Proposal("FLAT", BasePrice, BasePrice, BasePrice, c, tag) : c \in {0, 6}}
    \cup {Proposal("LONG", BasePrice, BasePrice - 2 * Tick, BasePrice + 2 * Tick, c, tag) :
             c \in {4, 6, 8}}
    \cup {Proposal("SHORT", BasePrice, BasePrice + 2 * Tick, BasePrice - 2 * Tick, 6, tag)}

\* the three strategy modes
DispatchConfigs ==
    {Config(1000, Pct(1, 400), Pct(1, 200), 2, Pct(1, 2), Pct(1, 1000), 62 * Cent, 50, mode) :
        mode \in {"hybrid1", "hybrid2", "both"}}

InitDispatch ==
    /\ BacktestIdle
    /\ DashboardIdle
    /\ ClientIdle
    /\ config \in DispatchConfigs
    /\ rm = NewRiskManager
    /\ call = NoCall
    /\ session_mark = 0
    /\ loss_hit = FALSE

\* the signal run_backtest goes on with, for the results sig1 and sig2
DispatchSignal ==
    /\ \E sig1 \in StrategyResults("hybrid1"), sig2 \in StrategyResults("hybrid2") :
          call' = [op |-> "select_signal", args |-> <<sig1, sig2>>,
                   ret |-> SelectSignal(config, sig1, sig2)]
    /\ UNCHANGED <<netvars, dashvars, config, rm, session_mark, loss_hit, btvars>>

NextDispatch == DispatchSignal

SpecDispatch == InitDispatch /\ [][NextDispatch]_vars

-----------------------------------------------------------------------------
(* The performance statistics applied to trade ledgers and equity curves *)

MaxLedger == 4      \* the longest trade ledger
MaxCurve == 5       \* the longest equity curve

\* pnl values in dollars: two losses, a scratch trade, two wins
PnlValues == {-50 * Unit, -30 * Unit, 0, 100 * Unit, 150 * Unit}

\* equity samples in dollars
EquityValues == {90 * Unit, 100 * Unit, 110 * Unit}

RECURSIVE SeqsUpTo(_, _)
SeqsUpTo(S, n) ==
    IF n = 0 THEN {<<>>}
    ELSE LET shorter == SeqsUpTo(S, n - 1)
         IN  shorter \cup {Append(q, x) : q \in shorter, x \in S}

Ledgers == {[k \in 1..Len(q) |-> [pnl |-> q[k]]] : q \in SeqsUpTo(PnlValues, MaxLedger)}

Curves == SeqsUpTo(EquityValues, MaxCurve)

\* a trade ledger, or an equity curve
InitStats ==
    /\ DashboardIdle
    /\ ClientIdle
    /\ config \in RMConfigs
    /\ rm = NewRiskManager
    /\ call = NoCall
    /\ session_mark = 0
    /\ loss_hit = FALSE
    /\ pc = "idle"
    /\ df_len = 0
    /\ walk_forward = FALSE
    /\ in_sample_pct = Pct(0, 1)
    /\ test_start = 0
    /\ i = 0
    /\ row = NoBar
    /\ signal = NoSignal
    /\ account = 0
    /\ \/ trades \in Ledgers /\ equity = <<>>
       \/ trades = <<>> /\ equity \in Curves
    /\ current_trade = <<>>
    /\ trade_id_counter = 0
    /\ signals_generated = 0
    /\ signals_filtered = 0
    /\ metrics = <<>>

StatsCall(name, result) ==
    /\ call' = [op |-> name, args |-> <<>>, ret |-> result]
    /\ UNCHANGED <<netvars, dashvars, config, rm, session_mark, loss_hit, btvars>>

CalculateWinRate == StatsCall("calculate_win_rate", calculate_win_rate(trades))

CalculateAvgRR == StatsCall("calculate_avg_rr", calculate_avg_rr(trades))

CalculateProfitFactor == StatsCall("calculate_profit_factor", calculate_profit_factor(trades))

CalculateMaxDrawdown == StatsCall("calculate_max_drawdown", calculate_max_drawdown(equity))

NextStats ==
    \/ CalculateWinRate
    \/ CalculateAvgRR
    \/ CalculateProfitFactor
    \/ CalculateMaxDrawdown

SpecStats == InitStats /\ [][NextStats]_vars

-----------------------------------------------------------------------------
(* The order methods of TradovateClient (engines/tradovate_client.py).  A     *)
(* call's result is the exception it raised, if any, and the requests it      *)
(* sent, a retried request being sent again.                                  *)

MAX_RETRIES == 3

\* _TV_ACTION_MAP.get(action); "" stands for None
TV_ACTION_MAP(action) ==
    IF action \in {"buy", "long", "Buy", "BUY", "LONG"} THEN "Buy"
    ELSE IF action \in {"sell", "short", "Sell", "SELL", "SHORT"} THEN "Sell"
    ELSE ""

OrderResult(raised, requests) == [raised |-> raised, requests |-> requests]

\* the HTTP statuses one _request can meet, the last one ending it: 429 is
\* retried while retry_count < _MAX_RETRIES and raises after that, a status
\* >= 500 is retried while retry_count < _MAX_RETRIES
StatusRuns ==
    LET retried == SeqsUpTo({429, 500}, MAX_RETRIES)
    IN  {Append(q, last) : q \in retried, last \in {200, 400}}
        \cup {Append(q, last) : q \in {r \in retried : Len(r) = MAX_RETRIES},
                                last \in {429, 500}}

\* an HTTP response: the status and what resp.json(content_type=None) makes of
\* the body ("object": a dict without errorText, "error_object": a dict with
\* errorText, "array": a list, "empty": None, "invalid": the decoder raises);
\* status 0 stands for a failed exchange (aiohttp.ClientError)
Response(status, body) == [status |-> status, body |-> body]

\* "resp.status >= 500 and retry_count < _MAX_RETRIES"
RetryServerError(retry_count) == retry_count < MAX_RETRIES

\* TradovateClient._request from attempt retry_count on: the exception it
\* raises ("" for a returned result, "pending" while the server has not
\* answered) and the requests it sent
RECURSIVE request(_, _, _, _)
request(path, payload, responses, retry_count) ==
    LET sent == <<[path |-> path, payload |-> payload]>>
    IN  IF retry_count + 1 > Len(responses) THEN OrderResult("pending", sent)
        ELSE
        LET resp == responses[retry_count + 1]
            retry == request(path, payload, responses, retry_count + 1)
            again == OrderResult(retry.raised, sent \o retry.requests)
        IN  IF resp.status = 0 THEN OrderResult("TradovateAPIError", sent)
            ELSE IF resp.status = 429
            THEN IF retry_count >= MAX_RETRIES
                 THEN OrderResult("TradovateRateLimitError", sent)
                 ELSE again
            ELSE IF resp.status >= 500 /\ RetryServerError(retry_count) THEN again
            ELSE IF resp.body = "invalid" THEN OrderResult("JSONDecodeError", sent)
            ELSE IF resp.status \notin {200, 201}
            THEN \* data.get("errorText")
                 IF resp.body \in {"object", "error_object"}
                 THEN OrderResult("TradovateAPIError", sent)
                 ELSE OrderResult("AttributeError", sent)
            ELSE IF resp.body = "error_object" THEN OrderResult("TradovateAPIError", sent)
            ELSE OrderResult("", sent)

\* _post: _ensure_token, then _request with its retries; the statuses come
\* with JSON objects as bodies
post(path, payload, token_ok, statuses) ==
    IF ~token_ok THEN OrderResult("TradovateAuthError", <<>>)
    ELSE request(path, payload, [k \in 1..Len(statuses) |-> Response(statuses[k], "object")], 0)

\* a JSON object: the keys with their values, in the order the dict literal
\* lists them
HasKey(object, key) == \E k \in 1..Len(object) : object[k][1] = key

Get(object, key) == object[CHOOSE k \in 1..Len(object) : object[k][1] = key][2]

\* liquidate_position
liquidate_position(account_id, contract_id, token_ok, statuses) ==
    post("order/liquidateposition",
         << <<"accountId", account_id>>, <<"contractId", contract_id>>,
            <<"admin", FALSE>>, <<"isAutomated", TRUE>> >>,
         token_ok, statuses)

\* place_market_order
place_market_order(account_id, account_spec, symbol, action, qty, token_ok, statuses) ==
    IF TV_ACTION_MAP(action) = "" \/ qty < 1 THEN OrderResult("ValueError", <<>>)
    ELSE post("order/placeorder",
              << <<"accountSpec", account_spec>>, <<"accountId", account_id>>,
                 <<"action", TV_ACTION_MAP(action)>>, <<"symbol", symbol>>,
                 <<"orderQty", qty>>, <<"orderType", "Market">>,
                 <<"isAutomated", TRUE>> >>,
              token_ok, statuses)

\* the stop leg of a bracket order, left to the exchange as a manual order
StopLeg_manual(exit_action, symbol, qty, stop_loss_price) ==
    << <<"action", exit_action>>, <<"symbol", symbol>>, <<"orderQty", qty>>,
       <<"orderType", "Stop">>, <<"stopPrice", stop_loss_price>>,
       <<"isAutomated", FALSE>> >>

\* bracket2 of place_bracket_order
StopLeg(exit_action, symbol, qty, stop_loss_price) ==
    << <<"action", exit_action>>, <<"symbol", symbol>>, <<"orderQty", qty>>,
       <<"orderType", "Stop">>, <<"stopPrice", stop_loss_price>>,
       <<"isAutomated", TRUE>> >>

\* place_bracket_order
place_bracket_order(account_id, account_spec, symbol, action, qty, take_profit_price, stop_loss_price, token_ok, statuses) ==
    IF TV_ACTION_MAP(action) = "" \/ qty < 1 THEN OrderResult("ValueError", <<>>)
    ELSE IF take_profit_price <= 0 \/ stop_loss_price <= 0 THEN OrderResult("ValueError", <<>>)
    ELSE
    LET mapped == TV_ACTION_MAP(action)
        exit_action == IF mapped = "Buy" THEN "Sell" ELSE "Buy"
        entry == << <<"accountSpec", account_spec>>, <<"accountId", account_id>>,
                    <<"action", mapped>>, <<"symbol", symbol>>, <<"orderQty", qty>>,
                    <<"orderType", "Market">>, <<"isAutomated", TRUE>> >>
        bracket1 == << <<"action", exit_action>>, <<"symbol", symbol>>,
                       <<"orderQty", qty>>, <<"orderType", "Limit">>,
                       <<"price", take_profit_price>>, <<"isAutomated", TRUE>> >>
        bracket2 == StopLeg(exit_action, symbol, qty, stop_loss_price)
    IN  post("order/placeOSO",
             << <<"entry", entry>>, <<"bracket1", bracket1>>, <<"bracket2", bracket2>> >>,
             token_ok, statuses)

\* place_oco_order
place_oco_order(account_id, account_spec, symbol, action, qty, take_profit_price, stop_loss_price, token_ok, statuses) ==
    IF TV_ACTION_MAP(action) = "" \/ qty < 1 THEN OrderResult("ValueError", <<>>)
    ELSE
    LET mapped == TV_ACTION_MAP(action)
        tp == << <<"accountSpec", account_spec>>, <<"accountId", account_id>>,
                 <<"action", mapped>>, <<"symbol", symbol>>, <<"orderQty", qty>>,
                 <<"orderType", "Limit">>, <<"price", take_profit_price>>,
                 <<"isAutomated", TRUE>> >>
        sl == << <<"accountSpec", account_spec>>, <<"accountId", account_id>>,
                 <<"action", mapped>>, <<"symbol", symbol>>, <<"orderQty", qty>>,
                 <<"orderType", "Stop">>, <<"stopPrice", stop_loss_price>>,
                 <<"isAutomated", TRUE>> >>
    IN  post("order/placeoco", << <<"order1", tp>>, <<"order2", sl>> >>, token_ok, statuses)

\* caller inputs: webhook spellings of the action and one that is not in the
\* map, quantities around the minimum, prices around zero
OrderActions == {"buy", "SHORT", "hold"}
OrderQuantities == {0, 2}
OrderPrices == {0, 20000}
AccountId == 7
AccountSpec == "DEMO7"
ContractIds == {11, 12}

InitOrders == InitRM

LiquidatePosition ==
    /\ \E contract_id \in ContractIds, token_ok \in BOOLEAN, statuses \in StatusRuns :
          call' = [op |-> "liquidate_position", args |-> <<contract_id>>,
                   ret |-> liquidate_position(AccountId, contract_id, token_ok, statuses)]
    /\ UNCHANGED <<netvars, dashvars, config, rm, session_mark, loss_hit, btvars>>

PlaceMarketOrder ==
    /\ \E action \in OrderActions, qty \in OrderQuantities,
          token_ok \in BOOLEAN, statuses \in StatusRuns :
          call' = [op |-> "place_market_order", args |-> <<action, qty>>,
                   ret |-> place_market_order(AccountId, AccountSpec, "MNQ", action, qty,
                                              token_ok, statuses)]
    /\ UNCHANGED <<netvars, dashvars, config, rm, session_mark, loss_hit, btvars>>

PlaceBracketOrder ==
    /\ \E action \in OrderActions, qty \in OrderQuantities,
          take_profit_price \in OrderPrices, stop_loss_price \in OrderPrices,
          token_ok \in BOOLEAN, statuses \in StatusRuns :
          call' = [op |-> "place_bracket_order",
                   args |-> <<action, qty, take_profit_price, stop_loss_price>>,
                   ret |-> place_bracket_order(AccountId, AccountSpec, "MNQ", action, qty,
                                               take_profit_price, stop_loss_price,
                                               token_ok, statuses)]
    /\ UNCHANGED <<netvars, dashvars, config, rm, session_mark, loss_hit, btvars>>

PlaceOcoOrder ==
    /\ \E action \in OrderActions, qty \in OrderQuantities,
          take_profit_price \in OrderPrices, stop_loss_price \in OrderPrices,
          token_ok \in BOOLEAN, statuses \in StatusRuns :
          call' = [op |-> "place_oco_order",
                   args |-> <<action, qty, take_profit_price, stop_loss_price>>,
                   ret |-> place_oco_order(AccountId, AccountSpec, "MNQ", action, qty,
                                           take_profit_price, stop_loss_price,
                                           token_ok, statuses)]
    /\ UNCHANGED <<netvars, dashvars, config, rm, session_mark, loss_hit, btvars>>

NextOrders ==
    \/ LiquidatePosition
    \/ PlaceMarketOrder
    \/ PlaceBracketOrder
    \/ PlaceOcoOrder

SpecOrders == InitOrders /\ [][NextOrders]_vars

-----------------------------------------------------------------------------
(* TradovateClient._request against a server whose responses are arbitrary *)

MaxResponses == 5   \* the responses the server has ready

Responses ==
    {Response(200, "object"), Response(200, "error_object"), Response(400, "object"),
     Response(429, "empty"), Response(500, "object"), Response(503, "array"),
     Response(0, "empty")}

ResponseRuns == {q \in SeqsUpTo(Responses, MaxResponses) : Len(q) = MaxResponses}

InitRequest ==
    /\ BacktestIdle
    /\ DashboardIdle
    /\ config \in RMConfigs
    /\ rm = NewRiskManager
    /\ call = NoCall
    /\ session_mark = 0
    /\ loss_hit = FALSE
    /\ server \in ResponseRuns

\* one _request("GET", "account/list"): each attempt takes the server's next response
Request ==
    /\ server # <<>>
    /\ LET result == request("account/list", <<>>, server, 0)
       IN  /\ call' = [op |-> "_request", args |-> <<server>>, ret |-> result]
           /\ server' = SubSeq(server, Len(result.requests) + 1, Len(server))
    /\ UNCHANGED <<config, rm, session_mark, loss_hit, btvars, dashvars>>

NextRequest == Request

SpecRequest == InitRequest /\ [][NextRequest]_vars

-----------------------------------------------------------------------------
(* TradovateWebhookProcessor: a TradingView alert validated and executed.  A  *)
(* result is the exception process raised ("" for none), the success flag and *)
(* error text of the record it returned, and the requests sent.               *)

\* payload.get(key) for a key the payload does not carry (None)
Absent == -1

\* the alert: the action as the text received, qty, and the optional prices
Payload(action, qty, take_profit, stop_loss) ==
    [action |-> action, qty |-> qty, take_profit |-> take_profit, stop_loss |-> stop_loss]

\* str.strip on the action texts
StrStrip(text) == IF text = "sell " THEN "sell" ELSE text

\* str.lower on the (stripped) action texts
StrLower(text) ==
    IF text \in {"buy", "Buy", "BUY"} THEN "buy"
    ELSE IF text \in {"sell", "Sell", "SELL"} THEN "sell"
    ELSE IF text \in {"long", "Long", "LONG"} THEN "long"
    ELSE IF text \in {"short", "Short", "SHORT"} THEN "short"
    ELSE IF text \in {"flat", "Flat", "FLAT"} THEN "flat"
    ELSE IF text \in {"exit", "Exit", "EXIT"} THEN "exit"
    ELSE text

FlattenActions == {"flat", "flatten", "close", "exit", "liquidate"}

\* {k.lower() for k in _TV_ACTION_MAP}
ActionKeysLower == {"buy", "sell", "long", "short"}

\* TradovateWebhookProcessor._validate raises WebhookValidationError
ValidationFails(payload) ==
    \/ payload.qty < 1
    \/ StrLower(StrStrip(payload.action)) \notin ActionKeysLower \cup FlattenActions
    \/ \E price \in {payload.take_profit, payload.stop_loss} : price # Absent /\ price <= 0

ProcessResult(raised, success, error, requests) ==
    [raised |-> raised, success |-> success, error |-> error, requests |-> requests]

\* the exceptions "except TradovateAPIError" catches
ApiErrors == {"TradovateAPIError", "TradovateRateLimitError"}

\* the exceptions "except (TradovateAPIError, TradovateAuthError, ValueError)" catches
OrderErrors == ApiErrors \cup {"TradovateAuthError", "ValueError", "JSONDecodeError"}

\* _get: _ensure_token, then _request
get(path, token_ok, statuses) ==
    IF ~token_ok THEN OrderResult("TradovateAuthError", <<>>)
    ELSE request(path, <<>>, [k \in 1..Len(statuses) |-> Response(statuses[k], "object")], 0)

RECURSIVE LiquidateAll(_, _, _)
\* the loop of _handle_flatten over the positions: a TradovateAPIError of a
\* liquidation is passed over, any other exception ends the loop
LiquidateAll(contracts, token_ok, statuses) ==
    IF contracts = <<>> THEN OrderResult("", <<>>)
    ELSE LET r == liquidate_position(AccountId, Head(contracts), token_ok, statuses)
             rest == LiquidateAll(Tail(contracts), token_ok, statuses)
         IN  IF r.raised \notin ApiErrors \cup {""} THEN r
             ELSE OrderResult(rest.raised, r.requests \o rest.requests)

\* TradovateWebhookProcessor._handle_flatten
handle_flatten(contracts, token_ok, statuses) ==
    LET listed == get("position/list", token_ok, statuses)
        closed == LiquidateAll(contracts, token_ok, statuses)
    IN  IF listed.raised \in ApiErrors
        THEN ProcessResult("", FALSE, listed.raised, listed.requests)
        ELSE IF listed.raised # ""
        THEN ProcessResult(listed.raised, FALSE, "", listed.requests)
        ELSE IF closed.raised # ""
        THEN ProcessResult(closed.raised, FALSE, "", listed.requests \o closed.requests)
        ELSE ProcessResult("", TRUE, "", listed.requests \o closed.requests)

\* TradovateWebhookProcessor.process
process(payload, contracts, token_ok, statuses) ==
    IF ValidationFails(payload) THEN ProcessResult("WebhookValidationError", FALSE, "", <<>>)
    ELSE
    LET raw_action == StrStrip(payload.action)
        action == TV_ACTION_MAP(raw_action)
        result == IF payload.take_profit # Absent /\ payload.stop_loss # Absent
                  THEN place_bracket_order(AccountId, AccountSpec, "MNQ", action, payload.qty,
                                           payload.take_profit, payload.stop_loss,
                                           token_ok, statuses)
                  ELSE place_market_order(AccountId, AccountSpec, "MNQ", action, payload.qty,
                                          token_ok, statuses)
    IN  IF StrLower(raw_action) \in FlattenActions
        THEN handle_flatten(contracts, token_ok, statuses)
        \* TradovateClient._validate_action(raw_action), before the try
        ELSE IF action = "" THEN ProcessResult("ValueError", FALSE, "", <<>>)
        ELSE IF result.raised \in OrderErrors
        THEN ProcessResult("", FALSE, result.raised, result.requests)
        ELSE IF result.raised # ""
        THEN ProcessResult(result.raised, FALSE, "", result.requests)
        ELSE ProcessResult("", TRUE, "", result.requests)

\* alerts: spellings of the action in several cases, with a trailing blank,
\* flatten words and a word that is no action; quantities around the minimum;
\* prices absent, zero and positive
WebhookActions == {"buy", "Buy", "Long", "SHORT", "sell ", "flat", "Exit", "hold"}
WebhookQuantities == {0, 1}
WebhookPrices == {Absent, 0, 20000}
\* the contracts of the account's open positions
OpenContracts == {<<>>, <<11, 12>>}
\* what the server answers to each request of the call
WebhookRuns == {<<200>>, <<500, 200>>, <<400>>, <<429, 429, 429, 429>>}

InitWebhook == InitRM

Process ==
    /\ \E action \in WebhookActions, qty \in WebhookQuantities,
          take_profit \in WebhookPrices, stop_loss \in WebhookPrices,
          contracts \in OpenContracts, token_ok \in BOOLEAN, statuses \in WebhookRuns :
          LET payload == Payload(action, qty, take_profit, stop_loss)
          IN  call' = [op |-> "process", args |-> <<payload, contracts, token_ok, statuses>>,
                       ret |-> process(payload, contracts, token_ok, statuses)]
    /\ UNCHANGED <<netvars, dashvars, config, rm, session_mark, loss_hit, btvars>>

NextWebhook == Process

SpecWebhook == InitWebhook /\ [][NextWebhook]_vars

-----------------------------------------------------------------------------
(* The dashboard (app.py): the session's configuration and RiskManager.  A    *)
(* StrategyConfig is an object: session_state.config and the RiskManager's    *)
(* config hold references into the heap.                                      *)

MaxSaves == 3       \* configuration saves in one session

\* StrategyConfig(...) with the fields the pages set here; the other fields
\* keep the defaults of utils/config.py
StrategyConfig(account_size, strategy_mode, paper_mode) ==
    [account_size |-> account_size,
     risk_per_trade_pct |-> Pct(1, 400),
     max_daily_loss_pct |-> Pct(1, 50),
     strategy_mode |-> strategy_mode,
     slippage_pct |-> Pct(1, 1000),
     commission_per_contract |-> 62 * Cent,
     paper_mode |-> paper_mode]

\* RiskManager(config): a new instance bound to the object config refers to
SessionRiskManager(instance, ref) ==
    [instance |-> instance, config |-> ref, state |-> NewRiskManager]

DashAccountSizes == {10000, 25000}
StrategyModes == {"hybrid1", "hybrid2"}

\* _init_session_state on the first run
InitDash ==
    /\ ClientIdle
    /\ BacktestIdle
    /\ config \in RMConfigs
    /\ rm = NewRiskManager
    /\ call = NoCall
    /\ session_mark = 0
    /\ loss_hit = FALSE
    /\ heap = <<StrategyConfig(25000, "hybrid1", TRUE)>>
    /\ session_state = [config |-> 1,
                        risk_manager |-> SessionRiskManager(1, 1),
                        market_data |-> "None",
                        paper_mode |-> TRUE]

\* page_dashboard: _get_market_data() caches the bars, risk_mgr.get_status()
PageDashboard ==
    /\ session_state' =
          [session_state EXCEPT
             !.market_data = "df",
             !.risk_manager.state =
                 get_status_fields(heap[session_state.risk_manager.config],
                                   session_state.risk_manager.state)]
    /\ UNCHANGED <<heap, rmvars, btvars, netvars>>

\* page_strategy_config, "Save Configuration": tentative_config is a new object
SaveConfiguration ==
    /\ Len(heap) < 1 + MaxSaves
    /\ \E account_size \in DashAccountSizes, strategy_mode \in StrategyModes,
          paper_mode \in BOOLEAN :
          LET tentative_config == Len(heap) + 1
          IN  /\ heap' = Append(heap, StrategyConfig(account_size, strategy_mode, paper_mode))
              /\ session_state' =
                    [config |-> tentative_config,
                     risk_manager |->
                        SessionRiskManager(session_state.risk_manager.instance + 1,
                                           tentative_config),
                     market_data |-> "None",
                     paper_mode |-> paper_mode]
    /\ UNCHANGED <<rmvars, btvars, netvars>>

\* page_settings, "Update Trading Mode": config.paper_mode is assigned on the
\* object session_state.config refers to, and that reference is stored back
UpdateTradingMode ==
    /\ \E paper_mode \in BOOLEAN :
          /\ heap' = [heap EXCEPT ![session_state.config].paper_mode = paper_mode]
          /\ session_state' = [session_state EXCEPT !.paper_mode = paper_mode]
    /\ UNCHANGED <<rmvars, btvars, netvars>>

NextDash ==
    \/ PageDashboard
    \/ SaveConfiguration
    \/ UpdateTradingMode

SpecDash == InitDash /\ [][NextDash]_vars

-----------------------------------------------------------------------------
(* Properties of run_backtest *)

SufficientData == df_len >= config.trend_ema_period + 20

\* C1: after each bar step the RiskManager holds at most one open position, and it
\* holds one exactly when current_trade is set (and then it is that trade's).
C1_OnePosition ==
    pc = "loop" =>
      /\ Cardinality(DOMAIN rm.open_positions) <= 1
      /\ (Cardinality(DOMAIN rm.open_positions) = 1) <=> (current_trade # <<>>)
      /\ current_trade # <<>> => DOMAIN rm.open_positions = {current_trade[1].id}

\* the second position of a run is open, after the first was closed
C1_Witness ==
    /\ pc = "loop"
    /\ current_trade # <<>>
    /\ current_trade[1].id = 2
    /\ Len(trades) = 1
    /\ DOMAIN rm.open_positions = {2}

\* C7: on sufficient data the returned equity curve has as many samples as bars
\* were processed, plus one, whether or not a position was open when the loop ended.
C7_EquityLength ==
    (pc = "done" /\ SufficientData) => Len(equity) = (df_len - test_start) + 1

\* the size the loop computes for the proposal it evaluated last
SizeOf(sig) == calculate_position_size(config, Abs(sig.entry_price - sig.stop_loss))

\* C8: every position run_backtest opens has a quantity >= 1, and a proposal
\* calculate_position_size sizes at 0 is rejected: the step that evaluates it
\* opens no position, calls no process_entry (trades_today and the id counter
\* stay) and counts the proposal as filtered.
C8_NoZeroQuantity ==
    /\ [](\A id \in DOMAIN rm.open_positions : rm.open_positions[id].quantity >= 1)
    /\ [](\A k \in 1..Len(trades) : trades[k].quantity >= 1)
    /\ [][(signals_generated' = signals_generated + 1 /\ SizeOf(signal') = 0) =>
            /\ rm'.open_positions = <<>>
            /\ current_trade' = <<>>
            /\ trade_id_counter' = trade_id_counter
            /\ rm'.trades_today = (IF i % SessionBars = 0 THEN 0 ELSE rm.trades_today)
            /\ signals_filtered' = signals_filtered + 1]_vars

\* a confident proposal sized at 0 contracts was turned down in a run that had
\* opened a position before
C8_Witness ==
    /\ pc = "loop"
    /\ signal.signal \in {"LONG", "SHORT"}
    /\ signal.confidence >= 5
    /\ SizeOf(signal) = 0
    /\ signals_filtered >= 1
    /\ Len(trades) >= 1
    /\ current_trade = <<>>

\* C17: run_backtest on fewer than trend_ema_period + 20 bars returns a result
\* whose metrics carry the insufficient-data error, with an empty trade ledger and
\* no position ever opened.
C17_InsufficientData ==
    ~SufficientData =>
      /\ pc \in {"start", "done"}
      /\ trades = <<>>
      /\ current_trade = <<>>
      /\ trade_id_counter = 0
      /\ rm = NewRiskManager
      /\ pc = "done" => metrics = [error |-> "Insufficient data for backtest"]

\* a run on too few bars has returned
C17_Witness ==
    /\ pc = "done"
    /\ ~SufficientData
    /\ df_len > config.trend_ema_period
    /\ "error" \in DOMAIN metrics

\* the evaluation start index as the claim states it
EvaluationStart ==
    IF walk_forward THEN (df_len * in_sample_pct.num) \div in_sample_pct.den
    ELSE config.trend_ema_period + 5

\* C18: no position is entered on a bar before the evaluation start index:
\* floor(len(bars) * in_sample_fraction) with walk-forward, trend_ema_period + 5
\* without.
C18_NoEntryBeforeStart ==
    /\ \A k \in 1..Len(trades) : trades[k].entry_bar >= EvaluationStart
    /\ current_trade # <<>> => current_trade[1].entry_bar >= EvaluationStart

\* a trade entered on the first bar the loop evaluates signals on is in the ledger
C18_Witness ==
    /\ Len(trades) >= 1
    /\ trades[1].entry_bar = EvaluationStart + 4
    /\ ~walk_forward

\* C19: when run_backtest returns, no position is open in its RiskManager; a
\* position open after the last bar was closed at the final bar's close with exit
\* reason "Session End"; every position entered is in the ledger exactly once.
C19_AllClosedAtReturn ==
    (pc = "done" /\ SufficientData) =>
      /\ DOMAIN rm.open_positions = {}
      /\ Len(trades) = trade_id_counter
      /\ \A k \in 1..Len(trades) : trades[k].id = k
      /\ current_trade # <<>> =>
            /\ Len(trades) >= 1
            /\ trades[Len(trades)].id = current_trade[1].id
            /\ trades[Len(trades)].exit_reason = "Session End"
            /\ trades[Len(trades)].exit_price = row[3]
            /\ trades[Len(trades)].exit_bar = df_len - 1

\* the run returned after closing its second position at the end of the data
C19_Witness ==
    /\ pc = "done"
    /\ current_trade # <<>>
    /\ Len(trades) = 2
    /\ trades[2].exit_reason = "Session End"
    /\ trades[1].exit_reason # "Session End"
    /\ DOMAIN rm.open_positions = {}

IsPrefix(a, b) == Len(a) <= Len(b) /\ \A k \in 1..Len(a) : a[k] = b[k]

RECURSIVE SumPnl(_)
SumPnl(ledger) ==
    IF ledger = <<>> THEN 0
    ELSE ledger[Len(ledger)].pnl + SumPnl(SubSeq(ledger, 1, Len(ledger) - 1))

\* C20: the equity curve and the trade ledger are append-only, and at every
\* prefix the last equity sample equals the starting account size plus the sum of
\* the pnl of the ledger trades closed so far.
C20_AppendOnlyConsistent ==
    /\ [][IsPrefix(equity, equity') /\ IsPrefix(trades, trades')]_vars
    /\ [](equity # <<>> =>
             equity[Len(equity)] = config.account_size * Unit + SumPnl(trades))

\* two trades are closed and the equity curve has moved off the starting balance
C20_Witness ==
    /\ pc = "loop"
    /\ Len(trades) = 2
    /\ SumPnl(trades) # 0
    /\ equity[Len(equity)] # equity[1]

\* the bar of the last reset_daily of the run so far: the last multiple of
\* SessionBars among the bars processed, or -1 if there was none
LastResetBar ==
    LET resets == {b \in test_start..(i - 1) : b % SessionBars = 0}
    IN  IF resets = {} THEN -1 ELSE CHOOSE b \in resets : \A c \in resets : c <= b

\* the process_entry calls since the last reset_daily: the entries of the ledger
\* and of the position held (which is in the ledger too once the run has
\* returned), from the bar of the reset on
EntriesSinceReset ==
    Cardinality({k \in 1..Len(trades) : trades[k].entry_bar >= LastResetBar})
    + (IF pc = "loop" /\ current_trade # <<>> /\ current_trade[1].entry_bar >= LastResetBar
       THEN 1 ELSE 0)

\* C21: within one session of a backtest trades_today equals the number of
\* process_entry calls since the last reset_daily and never exceeds
\* max_trades_per_session.
C21_TradesPerSession ==
    (pc \in {"loop", "done"} /\ SufficientData) =>
      /\ rm.trades_today = EntriesSinceReset
      /\ rm.trades_today <= config.max_trades_per_session

\* the one trade the session allows is closed, and a later bar passed without
\* another entry
C21_Witness ==
    /\ pc = "loop"
    /\ config.max_trades_per_session = 1
    /\ rm.trades_today = 1
    /\ Len(trades) = 1
    /\ current_trade = <<>>
    /\ i > trades[1].exit_bar + 2

\* a result that proposes a trade
IsTradeProposal(sig) == sig # NoSignal /\ sig.signal # "FLAT"

\* C22: in combiner mode the selected signal is the higher-confidence non-FLAT
\* proposal, the first strategy's when the confidences tie, and a non-FLAT
\* proposal is never discarded in favour of a None or FLAT result of the other
\* strategy.
C22_CombinerPicksProposal ==
    (call.op = "select_signal" /\ config.strategy_mode = "both") =>
      LET sig1 == call.args[1]
          sig2 == call.args[2]
      IN  /\ (IsTradeProposal(sig1) /\ IsTradeProposal(sig2)) =>
                call.ret = IF sig1.confidence >= sig2.confidence THEN sig1 ELSE sig2
          /\ (IsTradeProposal(sig1) /\ ~IsTradeProposal(sig2)) => call.ret = sig1
          /\ (~IsTradeProposal(sig1) /\ IsTradeProposal(sig2)) => call.ret = sig2

\* the step enters a position on its bar
EntersOnBar ==
    /\ pc = "loop"
    /\ i < df_len
    /\ current_trade' # <<>>
    /\ current_trade'[1].entry_bar = i

\* C32: once an exit drives the session's daily P&L to or below
\* -(account_size * max_daily_loss_pct), no position is entered on a later
\* bar of that session (nor on the bar of that exit); entries resume at the
\* earliest on the next session-boundary bar, where reset_daily is called.
C32_NoEntryAfterDailyLoss ==
    [][EntersOnBar => (~loss_hit' /\ (loss_hit => i % SessionBars = 0))]_vars

\* the loss limit was reached by an exit and a later bar was evaluated
\* without a position
C32_Witness ==
    /\ pc = "loop"
    /\ loss_hit
    /\ rm.is_shutdown
    /\ Len(trades) >= 1
    /\ current_trade = <<>>
    /\ i > trades[Len(trades)].exit_bar + 1
    /\ i > test_start + 4

RatioKeys == {"win_rate", "avg_rr", "profit_factor", "sharpe"}

\* C36: every trade of the ledger closed with exit reason "Take Profit" has a
\* positive gross P&L, whatever the slippage fraction, the entry price and the
\* stop/target distance of the proposal.
C36_TakeProfitGrossPositive ==
    \A k \in 1..Len(trades) :
        trades[k].exit_reason = "Take Profit" => trades[k].gross_pnl > 0

\* a step of the loop over the bars
IsBarStep == pc = "loop" /\ i < df_len /\ i' = i + 1

\* C37: within one bar run_backtest acts in the order session reset, exit
\* check, entry gate, equity append: a position is not checked for exit on the
\* bar it was entered, every Stop Loss or Take Profit trade of the ledger has
\* bars_held >= 1, and only a "Session End" close can have bars_held = 0.
C37_BarOrder ==
    /\ [](\A k \in 1..Len(trades) :
            /\ trades[k].exit_reason \in {"Stop Loss", "Take Profit"} =>
                  trades[k].bars_held >= 1
            /\ trades[k].bars_held = 0 => trades[k].exit_reason = "Session End")
    /\ [][IsBarStep =>
            LET closed == Len(trades') > Len(trades)
                last == trades'[Len(trades')]
            IN  \* the exit check sees the position held before the bar, never the
                \* one the entry gate opens on it
                /\ closed => /\ Len(trades') = Len(trades) + 1
                             /\ current_trade # <<>>
                             /\ last.id = current_trade[1].id
                             /\ last.entry_bar < i
                             /\ last.exit_bar = i
                /\ EntersOnBar => (current_trade = <<>> \/ closed)
                \* the session reset precedes the exit and the entry
                /\ i % SessionBars = 0 =>
                      /\ rm'.trades_today = IF EntersOnBar THEN 1 ELSE 0
                      /\ Round2(rm'.daily_pnl) = IF closed THEN last.pnl ELSE 0
                \* the equity sample is taken last
                /\ Len(equity') = Len(equity) + 1
                /\ equity'[Len(equity')] = account']_vars

\* on the first bar of a session a position entered in the session before was
\* closed and another was entered
C37_Witness ==
    /\ pc = "loop"
    /\ i - 1 = SessionBars
    /\ Len(trades) >= 1
    /\ trades[Len(trades)].exit_bar = SessionBars
    /\ trades[Len(trades)].bars_held >= 1
    /\ current_trade # <<>>
    /\ current_trade[1].entry_bar = SessionBars
    /\ rm.trades_today = 1
    /\ equity[Len(equity)] = account

\* C38: when run_backtest returns, signals_generated equals the number of
\* trades in the ledger plus signals_filtered: every non-FLAT proposal evaluated
\* is either entered, and later closed exactly once, or counted as filtered; a
\* proposal is entered only if its quantity is > 0 and its confidence is >= 0.5.
C38_SignalAccounting ==
    /\ [](pc = "done" =>
            /\ signals_generated = Len(trades) + signals_filtered
            /\ \A j, k \in 1..Len(trades) : trades[j].id = trades[k].id => j = k
            /\ {trades[k].id : k \in 1..Len(trades)} = 1..trade_id_counter)
    /\ [](pc = "loop" =>
            signals_generated = Len(trades) + signals_filtered
                                + (IF current_trade # <<>> THEN 1 ELSE 0))
    /\ [][IsBarStep =>
            /\ EntersOnBar =>
                  /\ current_trade'[1].quantity > 0
                  /\ current_trade'[1].confidence >= 5
                  /\ signals_generated' = signals_generated + 1
                  /\ signals_filtered' = signals_filtered
            /\ signals_filtered' # signals_filtered =>
                  /\ signals_filtered' = signals_filtered + 1
                  /\ signals_generated' = signals_generated + 1
                  /\ ~EntersOnBar]_vars

\* a run returned with two trades in the ledger, the second closed at the end
\* of the data, and proposals filtered on the way
C38_Witness ==
    /\ pc = "done"
    /\ Len(trades) = 2
    /\ trades[2].exit_reason = "Session End"
    /\ signals_filtered >= 2
    /\ signals_generated = signals_filtered + 2

\* C25: for every run_backtest on sufficient data the metrics contain
\* total_trades equal to the length of the returned ledger; when no trade was
\* generated the metrics carry total_trades = 0 and an explanatory note and
\* contain no ratio metric (win rate, avg R:R, profit factor, Sharpe).
C25_MetricsCountTrades ==
    (pc = "done" /\ SufficientData) =>
      /\ "total_trades" \in DOMAIN metrics
      /\ metrics.total_trades = Len(trades)
      /\ (Len(trades) = 0) =>
            /\ metrics.total_trades = 0
            /\ "note" \in DOMAIN metrics
            /\ metrics.note # ""
            /\ DOMAIN metrics \cap RatioKeys = {}

\* a run over sufficient data that generated no trade
C25_Witness ==
    /\ pc = "done"
    /\ SufficientData
    /\ Len(trades) = 0
    /\ Len(equity) > 10
    /\ "note" \in DOMAIN metrics

-----------------------------------------------------------------------------
(* Properties of the RiskManager *)

OpenIds(s) == DOMAIN s.open_positions

RECURSIVE SumNetFrom(_, _)
\* the sum of the net_pnl fields of log[from + 1 .. Len(log)]
SumNetFrom(log, from) ==
    IF from >= Len(log) THEN 0
    ELSE log[from + 1].net_pnl + SumNetFrom(log, from + 1)

\* C2: for an open LONG position the stored stop_loss never decreases over
\* update_trailing_stop and check_exit_conditions calls, and a non-None value
\* returned by update_trailing_stop is strictly greater than the stop held before
\* the call; for a SHORT position the stored stop_loss never increases.
C2_TrailingStopMonotone ==
    [][\A id \in OpenIds(rm) \cap OpenIds(rm') :
         call'.op \in {"update_trailing_stop", "check_exit_conditions"} =>
           LET before == rm.open_positions[id].stop_loss
               after == rm'.open_positions[id].stop_loss
           IN  IF rm.open_positions[id].direction = "LONG"
               THEN /\ after >= before
                    /\ (call'.op = "update_trailing_stop" /\ call'.args[1] = id /\ call'.ret.some)
                         => call'.ret.value > before
               ELSE after <= before]_vars

ShutdownTexts == {"Max daily loss reached", "Max daily loss reached after trade"}

\* C3: once the daily loss limit has been reached, every can_trade call until the
\* next reset_daily returns not-allowed with a shutdown reason, whatever other
\* operations came in between.
C3_ShutdownLatched ==
    [][(loss_hit /\ call'.op = "can_trade") =>
         (~call'.ret.allowed /\ call'.ret.reason.text \in ShutdownTexts)]_vars

\* can_trade refused with a shutdown reason although the later exits brought the
\* daily P&L back above the limit
C3_Witness ==
    /\ call.op = "can_trade"
    /\ loss_hit
    /\ ~LossReached(config, rm)
    /\ ~call.ret.allowed
    /\ call.ret.reason.text \in ShutdownTexts

\* C33: for a positive loss limit, whenever daily_pnl is at or below
\* -(account_size * max_daily_loss_pct) the RiskManager is shut down with a
\* non-empty shutdown_reason, in every state its operations reach: process_exit
\* sets the flag itself, no can_trade call is needed.
C33_ExitLatchesShutdown ==
    (MaxLoss(config) > 0 /\ rm.daily_pnl <= -MaxLoss(config)) =>
        (rm.is_shutdown /\ rm.shutdown_reason.text # "")

\* the exit that took the day's P&L to the limit has just returned and the flag
\* carries process_exit's own reason
C33_Witness ==
    /\ call.op = "process_exit"
    /\ call.ret # <<>>
    /\ MaxLoss(config) > 0
    /\ rm.daily_pnl <= -MaxLoss(config)
    /\ rm.daily_pnl - call.ret.net_pnl > -MaxLoss(config)
    /\ rm.is_shutdown
    /\ rm.shutdown_reason.text = "Max daily loss reached after trade"

C35_TrailedStopNotBreached ==
    [][(call'.op = "update_trailing_stop" /\ call'.args[1] \in OpenIds(rm)) =>
         LET id == call'.args[1]
             current_price == call'.args[2]
             before == rm.open_positions[id]
             after == rm'.open_positions[id]
             in_profit == IF before.direction = "LONG"
                          THEN current_price > before.entry_price
                          ELSE current_price < before.entry_price
         IN  /\ ~in_profit => (after.stop_loss = before.stop_loss /\ ~call'.ret.some)
             /\ after.stop_loss # before.stop_loss =>
                   IF before.direction = "LONG"
                   THEN after.stop_loss <= current_price
                   ELSE after.stop_loss >= current_price]_vars

\* C4: within a session daily_pnl equals the sum of the net_pnl fields of the exit
\* records process_exit has produced since the last reset_daily.
C4_DailyPnlIsSumOfNet ==
    rm.daily_pnl = SumNetFrom(rm.trade_log, session_mark)

\* C5: process_entry while a position is open leaves open_positions and
\* trades_today unchanged.
C5_EntryWhileOpenIsNoOp ==
    [][(call'.op = "process_entry" /\ OpenIds(rm) # {}) =>
         (rm'.open_positions = rm.open_positions /\ rm'.trades_today = rm.trades_today)]_vars

\* C6: check_exit_conditions decides stop first.  LONG: (stop, "Stop Loss") whenever
\* bar_low <= stop, even if bar_high >= target; (target, "Take Profit") only when
\* bar_high >= target and bar_low > stop; otherwise None.  SHORT mirrored.
C6_StopFirst ==
    [][(call'.op = "check_exit_conditions" /\ call'.args[1] \in OpenIds(rm)) =>
         LET pos == rm.open_positions[call'.args[1]]
             bar_high == call'.args[2]
             bar_low == call'.args[3]
             long == pos.direction = "LONG"
             stopped == IF long THEN bar_low <= pos.stop_loss ELSE bar_high >= pos.stop_loss
             reached == IF long THEN bar_high >= pos.take_profit ELSE bar_low <= pos.take_profit
         IN  /\ stopped => call'.ret = ExitAt(pos.stop_loss, "Stop Loss")
             /\ (reached /\ ~stopped) => call'.ret = ExitAt(pos.take_profit, "Take Profit")
             /\ (~reached /\ ~stopped) => call'.ret = NoExit]_vars

\* a bar that spans both the stop and the target of a LONG position was resolved
\* as a stop-loss exit
C6_Witness ==
    /\ call.op = "check_exit_conditions"
    /\ call.args[1] \in OpenIds(rm)
    /\ LET pos == rm.open_positions[call.args[1]]
       IN  /\ pos.direction = "LONG"
           /\ call.args[3] <= pos.stop_loss
           /\ call.args[2] >= pos.take_profit
           /\ call.ret = ExitAt(pos.stop_loss, "Stop Loss")

\* C14: process_exit with a trade id that is not open is a no-op returning zeroed
\* P&L fields: daily_pnl, is_shutdown, trades_today, open_positions and trade_log
\* are unchanged, so a second process_exit for the same id books nothing.
C14_UnknownExitIsNoOp ==
    [][(call'.op = "process_exit" /\ call'.args[1] \notin OpenIds(rm)) =>
         /\ rm' = rm
         /\ call'.ret = [pnl |-> 0, commission |-> 0, slippage |-> 0, net_pnl |-> 0]]_vars

\* process_exit was called again for the id of the one trade already booked
C14_Witness ==
    /\ call.op = "process_exit"
    /\ call.ret.net_pnl = 0
    /\ Len(rm.trade_log) = 1
    /\ rm.trade_log[1].trade_id = call.args[1]
    /\ rm.trade_log[1].net_pnl # 0
    /\ rm.daily_pnl # 0
    /\ "pnl" \in DOMAIN call.ret

\* C15: process_exit on an open position fills worse than the requested price by
\* exit_price * slippage_pct (lower for LONG, higher for SHORT), gross P&L is the
\* signed points * point value * quantity, net P&L is gross minus
\* commission_per_contract * quantity * 2 and is added to daily_pnl, exactly one
\* record is appended to the trade log and the position is removed.
C15_ExitAccounting ==
    [][(call'.op = "process_exit" /\ call'.args[1] \in OpenIds(rm)) =>
         LET id == call'.args[1]
             pos == rm.open_positions[id]
             price == call'.ret.exit_price
             slip == (price * config.slippage_pct.num) \div config.slippage_pct.den
             fill == IF pos.direction = "LONG" THEN price - slip ELSE price + slip
             points == IF pos.direction = "LONG" THEN fill - pos.entry_price
                       ELSE pos.entry_price - fill
             gross == points * MNQ_POINT_VALUE * pos.quantity
             net == gross - config.commission_per_contract * pos.quantity * 2
         IN  /\ call'.ret.adj_exit_price = fill
             /\ call'.ret.gross_pnl = Round2(gross)
             /\ call'.ret.net_pnl = Round2(net)
             /\ rm'.daily_pnl = rm.daily_pnl + net
             /\ rm'.trade_log = Append(rm.trade_log, call'.ret)
             /\ OpenIds(rm') = OpenIds(rm) \ {id}
             /\ \A k \in OpenIds(rm') : rm'.open_positions[k] = rm.open_positions[k]]_vars

\* a SHORT position was exited at a fill above the requested price, at a loss
C15_Witness ==
    /\ call.op = "process_exit"
    /\ "direction" \in DOMAIN call.ret
    /\ call.ret.direction = "SHORT"
    /\ call.ret.adj_exit_price > call.ret.exit_price
    /\ call.ret.net_pnl < 0
    /\ rm.trade_log[Len(rm.trade_log)] = call.ret
    /\ call.args[1] \notin OpenIds(rm)

\* C16: reset_daily sets daily_pnl and trades_today to 0 and clears the shutdown
\* flag and reason, and changes nothing else: the open positions (with their
\* trailing stops and high/low-water marks) and the trade log survive.
C16_ResetDailyFrame ==
    [][call'.op = "reset_daily" =>
         /\ rm'.daily_pnl = 0
         /\ rm'.trades_today = 0
         /\ ~rm'.is_shutdown
         /\ rm'.shutdown_reason = NoReason
         /\ rm'.open_positions = rm.open_positions
         /\ rm'.trade_log = rm.trade_log]_vars

\* the session was reset after a trade was booked, while a position whose stop
\* had been trailed was open
C16_Witness ==
    /\ call.op = "reset_daily"
    /\ rm.daily_pnl = 0
    /\ rm.trades_today = 0
    /\ Len(rm.trade_log) = 1
    /\ rm.trade_log[1].net_pnl # 0
    /\ \E id \in OpenIds(rm) :
          rm.open_positions[id].stop_loss # Bracket(rm.open_positions[id].direction)[1]

-----------------------------------------------------------------------------
(* Properties of position sizing *)

SizingOps == {"calculate_position_size", "helpers.calculate_position_size"}

\* C9: calculate_position_size returns 0 for every stop distance <= 0, whatever
\* the account size and the risk fraction, in the RiskManager and in helpers.
C9_ZeroForInvalidStop ==
    (call.op \in SizingOps /\ call.args[1] <= 0) => call.ret = 0

\* a negative stop distance on a negative account, where risk over cost is
\* positive, was sized by the RiskManager
C9_Witness ==
    /\ call.op = "calculate_position_size"
    /\ call.args[1] < 0
    /\ config.account_size < 0
    /\ config.risk_per_trade_pct.num > 0
    /\ call.ret = 0

\* C10: for a stop distance > 0 (and a positive account and risk fraction) the
\* quantity q the RiskManager returns risks no more than the budget:
\* q * stop_distance * point_value <= account_size * risk_per_trade_pct.
C10_RiskWithinBudget ==
    (/\ call.op = "calculate_position_size"
     /\ call.args[1] > 0
     /\ config.account_size > 0
     /\ config.risk_per_trade_pct.num > 0)
    => call.ret * CostCents(call.args[1], MNQ_POINT_VALUE) * config.risk_per_trade_pct.den
          <= RiskCentsNum(config.account_size, config.risk_per_trade_pct)

\* C11: for a stop distance > 0 the RiskManager's size is
\* floor(account_size * risk_per_trade_pct / (stop_distance * point_value)), a
\* floored 0 becoming 1 when the ratio is >= 0.5, capped at
\* max(1, floor(account_size / max(0.01 * account_size, 1))), and never negative.
C11_SizeFormula ==
    (call.op = "calculate_position_size" /\ call.args[1] > 0) =>
      LET risk == config.account_size * 100 * config.risk_per_trade_pct.num
          cost == ((call.args[1] * MNQ_POINT_VALUE) \div Cent) * config.risk_per_trade_pct.den
          floored == risk \div cost
          sized == IF floored = 0 /\ 2 * risk >= cost THEN 1 ELSE floored
          margin == IF config.account_size >= 100
                    THEN (100 * config.account_size) \div config.account_size
                    ELSE config.account_size
          capped == Min(sized, Max(1, margin))
      IN  /\ call.ret >= 0
          /\ call.ret = Max(0, capped)

\* the default account sized on a one-tick stop: the ratio 125 is capped at 100
C11_Witness ==
    /\ call.op = "calculate_position_size"
    /\ config.account_size = 25000
    /\ config.risk_per_trade_pct = Pct(1, 400)
    /\ call.args[1] = Tick
    /\ call.ret = 100

\* C39: for every account size, risk fraction and stop distance,
\* helpers.calculate_position_size(account, risk, stop, point_value) equals
\* RiskManager.calculate_position_size(stop) under a configuration of the same
\* account size and risk fraction.
C39_HelpersSizeIsEngineSize ==
    (/\ call.op = "helpers.calculate_position_size"
     /\ call.args[2] = config.account_size
     /\ call.args[3] = config.risk_per_trade_pct) =>
        call.ret = calculate_position_size(config, call.args[1])

\* C28: helpers.calculate_position_size returns
\* floor(account_size * risk_pct / (stop_distance * point_value)) for a positive
\* account size and stop distance (1 for 25000 / 0.0025 / 25 / 2, 12 for
\* 100000 / 0.005 / 20 / 2; the risk fraction is not negative), and 0 when the
\* account size or the stop distance is <= 0.
C28_HelpersSizeIsFloor ==
    (call.op = "helpers.calculate_position_size") =>
      LET stop == call.args[1]
          account_size == call.args[2]
          risk_pct == call.args[3]
          \* risk and cost of one contract in cents, times the fraction's denominator
          risk == account_size * 100 * risk_pct.num
          cost == ((stop \div Cent) * MNQ_POINT_VALUE) * risk_pct.den
      IN  /\ (stop > 0 /\ account_size > 0 /\ risk_pct.num >= 0) =>
                /\ call.ret * cost <= risk
                /\ risk < (call.ret + 1) * cost
          /\ (stop <= 0 \/ account_size <= 0) => call.ret = 0
          /\ call.args = <<25 * Unit, 25000, Pct(1, 400)>> => call.ret = 1
          /\ call.args = <<20 * Unit, 100000, Pct(1, 200)>> => call.ret = 12

\* 100000 dollars at 0.5% on a 20-point stop: 500 / 40 = 12.5, floored to 12
C28_Witness ==
    /\ call.op = "helpers.calculate_position_size"
    /\ call.args = <<20 * Unit, 100000, Pct(1, 200)>>
    /\ call.ret = 12

-----------------------------------------------------------------------------
(* Properties of can_trade and get_status on assigned fields *)

\* C12: can_trade returns (True, "OK") exactly when the manager is not shut down,
\* daily_pnl > -(account_size * max_daily_loss_pct), trades_today <
\* max_trades_per_session and no position is open; otherwise it returns
\* not-allowed; it sets the shutdown flag only in the daily-loss case, and a fresh
\* manager with a positive loss limit may trade.
C12_CanTradeExactly ==
    [][call'.op = "can_trade" =>
         LET limit == (config.account_size * Unit * config.max_daily_loss_pct.num)
                         \div config.max_daily_loss_pct.den
             ok == /\ ~rm.is_shutdown
                   /\ rm.daily_pnl > -limit
                   /\ rm.trades_today < config.max_trades_per_session
                   /\ DOMAIN rm.open_positions = {}
         IN  /\ call'.ret.allowed = ok
             /\ ok => (call'.ret.reason.prefix = "" /\ call'.ret.reason.text = "OK")
             /\ rm'.is_shutdown # rm.is_shutdown =>
                   (rm'.is_shutdown /\ rm.daily_pnl <= -limit)
             /\ (rm = NewRiskManager /\ limit > 0) => call'.ret.allowed]_vars

\* can_trade refused a manager that is not shut down and within its loss limit
\* because trades_today had reached max_trades_per_session
C12_Witness ==
    /\ call.op = "can_trade"
    /\ ~call.ret.allowed
    /\ call.ret.reason.text = "Max trades per session reached"
    /\ ~rm.is_shutdown
    /\ rm.trades_today = config.max_trades_per_session
    /\ DOMAIN rm.open_positions = {}

\* C13: get_status never mutates state: daily_pnl, trades_today, is_shutdown,
\* shutdown_reason, open_positions and trade_log are unchanged, also when the
\* daily loss limit is already breached and the shutdown not yet latched.
C13_GetStatusReadOnly ==
    [][call'.op = "get_status" => rm' = rm]_vars

\* get_status reported a manager beyond its loss limit that is not shut down
C13_Witness ==
    /\ call.op = "get_status"
    /\ ~call.ret.is_shutdown
    /\ ~rm.is_shutdown
    /\ MaxLoss(config) > 0
    /\ rm.daily_pnl < -MaxLoss(config)

-----------------------------------------------------------------------------
(* Properties of the performance statistics *)

\* the ledger's pnl values in whole dollars
Dollars(ledger) == [k \in 1..Len(ledger) |-> ledger[k].pnl \div Unit]

WinIdx(ledger) == {k \in 1..Len(ledger) : ledger[k].pnl > 0}
LossIdx(ledger) == {k \in 1..Len(ledger) : ledger[k].pnl < 0}

RECURSIVE SumAt(_, _)
SumAt(values, idx) ==
    IF idx = {} THEN 0
    ELSE LET k == CHOOSE x \in idx : TRUE
         IN  values[k] + SumAt(values, idx \ {k})

\* the fraction x equals a / b (b > 0)
FracIs(x, a, b) == x.kind = "num" /\ x.den > 0 /\ x.num * b = a * x.den

\* C23: calculate_avg_rr returns mean winning pnl / mean absolute losing pnl
\* when the ledger has winners and losers, and 0 when it has no losing trade.
C23_AvgRR ==
    (call.op = "calculate_avg_rr") =>
      LET gain == SumAt(Dollars(trades), WinIdx(trades))
          loss == -SumAt(Dollars(trades), LossIdx(trades))
          n_w == Cardinality(WinIdx(trades))
          n_l == Cardinality(LossIdx(trades))
      IN  /\ (n_w > 0 /\ n_l > 0) => FracIs(call.ret, gain * n_l, loss * n_w)
          /\ (n_l = 0) => call.ret = Zero

\* C24: calculate_profit_factor returns gross profit / gross loss when there
\* are losses, the infinite sentinel when there are none and gross profit > 0,
\* and 0 when there are neither profits nor losses; no division by zero.
C24_ProfitFactor ==
    (call.op = "calculate_profit_factor") =>
      LET gain == SumAt(Dollars(trades), WinIdx(trades))
          loss == -SumAt(Dollars(trades), LossIdx(trades))
      IN  /\ (loss > 0) => FracIs(call.ret, gain, loss)
          /\ (loss = 0 /\ gain > 0) => call.ret = Infinity
          /\ (loss = 0 /\ gain = 0) => call.ret = Zero
          /\ (call.ret.kind = "num") => call.ret.den # 0

\* a ledger of scratch trades only: neither profit nor loss, not empty
C24_Witness ==
    /\ call.op = "calculate_profit_factor"
    /\ Len(trades) = 2
    /\ \A k \in 1..Len(trades) : trades[k].pnl = 0
    /\ call.ret = Zero

\* C26: calculate_win_rate returns (trades with pnl > 0) / (trades), within
\* [0, 1], for a non-empty ledger and 0 for the empty one; a pnl of exactly 0
\* is not a win.
C26_WinRate ==
    (call.op = "calculate_win_rate") =>
      /\ (Len(trades) > 0) =>
            /\ FracIs(call.ret, Cardinality(WinIdx(trades)), Len(trades))
            /\ 0 <= call.ret.num
            /\ call.ret.num <= call.ret.den
      /\ (Len(trades) = 0) => call.ret = Zero

\* one win, one scratch trade, two losses: a rate of 1/4
C26_Witness ==
    /\ call.op = "calculate_win_rate"
    /\ Len(trades) = 4
    /\ Cardinality(WinIdx(trades)) = 1
    /\ \E k \in 1..Len(trades) : trades[k].pnl = 0
    /\ call.ret = Frac(1, 4)

\* the declines from an earlier (or the same) sample to a later one
Declines(curve) ==
    {curve[p[1]] - curve[p[2]] :
        p \in {q \in (1..Len(curve)) \X (1..Len(curve)) : q[1] <= q[2]}}

\* C27: for an equity curve of positive values with at least two samples,
\* calculate_max_drawdown returns the largest peak-to-trough decline, which is
\* non-negative, and a fraction within [0, 1]; both are strictly positive
\* whenever some sample lies below an earlier sample.
C27_MaxDrawdown ==
    (call.op = "calculate_max_drawdown" /\ Len(equity) >= 2) =>
      LET amount == call.ret[1]
          fraction == call.ret[2]
          largest == CHOOSE d \in Declines(equity) : \A e \in Declines(equity) : e <= d
          falls == \E j \in 1..Len(equity), k \in 1..Len(equity) :
                      j < k /\ equity[k] < equity[j]
      IN  /\ FracIs(amount, largest, Unit)
          /\ amount.num >= 0
          /\ fraction.kind = "num" /\ fraction.den > 0
          /\ 0 <= fraction.num /\ fraction.num <= fraction.den
          /\ falls => (amount.num > 0 /\ fraction.num > 0)
          /\ ~falls => (amount = Zero /\ fraction = Zero)

\* a rise to a peak of 110 and a fall to 90: 20 dollars, 2/11 of the peak
C27_Witness ==
    /\ call.op = "calculate_max_drawdown"
    /\ Len(equity) >= 3
    /\ equity[1] = 100 * Unit
    /\ call.ret = <<Frac(20, 1), Frac(2, 11)>>

-----------------------------------------------------------------------------
(* Properties of the Tradovate client *)

OrderOps == {"liquidate_position", "place_market_order", "place_bracket_order",
             "place_oco_order"}

\* the orders one request carries
Legs(req) ==
    IF req.path = "order/placeOSO"
    THEN {Get(req.payload, key) : key \in {"entry", "bracket1", "bracket2"}}
    ELSE IF req.path = "order/placeoco"
    THEN {Get(req.payload, key) : key \in {"order1", "order2"}}
    ELSE {req.payload}

\* C30: every order request the Tradovate client sends (market order, each
\* leg of a bracket/OSO order, each leg of an OCO order, liquidate-position)
\* carries isAutomated = true, for every caller input and on every retry.
C30_OrdersAreAutomated ==
    (call.op \in OrderOps) =>
      \A k \in 1..Len(call.ret.requests) :
        \A leg \in Legs(call.ret.requests[k]) :
          HasKey(leg, "isAutomated") /\ Get(leg, "isAutomated") = TRUE

\* a bracket order whose request was retried before it went through
C30_Witness ==
    /\ call.op = "place_bracket_order"
    /\ call.ret.raised = ""
    /\ Len(call.ret.requests) = 3
    /\ Cardinality(Legs(call.ret.requests[3])) = 3

\* C31: _request ends after at most _MAX_RETRIES + 1 = 4 HTTP attempts for
\* any sequence of server responses: a run of 429 responses ends in
\* TradovateRateLimitError, a run of 5xx responses in TradovateAPIError, and
\* no response sequence is retried without bound.
C31_RequestTerminates ==
    (call.op = "_request" /\ Len(call.args[1]) >= MAX_RETRIES + 1) =>
      LET responses == call.args[1]
          attempts == Len(call.ret.requests)
          first == 1..(MAX_RETRIES + 1)
      IN  /\ attempts <= MAX_RETRIES + 1
          /\ call.ret.raised # "pending"
          /\ (\A k \in first : responses[k].status = 429) =>
                (attempts = MAX_RETRIES + 1 /\ call.ret.raised = "TradovateRateLimitError")
          /\ (\A k \in first : responses[k].status >= 500) =>
                (attempts = MAX_RETRIES + 1 /\ call.ret.raised = "TradovateAPIError")

------------------------------------------------------------------------\* C40: TradovateWebhookProcessor.process never raises for a payload that
\* passes _validate (any accepted spelling or case of the action, qty >= 1): it
\* returns a result record with success true, or one with success false and an
\* error text.
C40_ProcessNeverRaises ==
    (call.op = "process" /\ ~ValidationFails(call.args[1])) =>
        /\ call.ret.raised = ""
        /\ call.ret.success \/ call.ret.error # ""

-----
(* Properties of the dashboard *)

\* the active StrategyConfiguration
ActiveConfig == heap[session_state.config]

\* C29: every change of the active StrategyConfiguration (a configuration
\* save or a mode update) recreates the RiskManager: the session then holds a
\* new instance, bound to the active configuration, with daily P&L 0,
\* trades-today 0, not shut down and no open position.
C29_ConfigChangeRecreatesRiskManager ==
    [][(ActiveConfig' # ActiveConfig) =>
          /\ session_state'.risk_manager.instance # session_state.risk_manager.instance
          /\ session_state'.risk_manager.config = session_state'.config
          /\ session_state'.risk_manager.state = NewRiskManager]_vars

====
